---- MODULE Spec2Model ----
(***************************************************************************)
(* Model of the Monte Carlo scoring engine of the crypto trading bot:      *)
(*   crypto_profit_maximizer.py, crypto_predictor.py,                      *)
(*   crypto_trading_simulator.py, and of the bot around it: the loop and   *)
(*   the trade path of trading_bot.py, risk_manager.py and                 *)
(*   portfolio_tracker.py, and the price cache of market_data.py.          *)
(*                                                                         *)
(* Floating point numbers are modelled in fixed point, rounded down:       *)
(*   rates (drift, volatility, daily_return)  in 1/RateScale               *)
(*   shocks (standard normal draws)           in 1/ZScale                  *)
(*   prices and money                         in ticks of 1/100            *)
(*   quantities of a coin                     in 1/QtyScale                *)
(*   percentages (returns, percentiles)       in 1/PctScale of a percent   *)
(*   ratios (sharpe, sortino)                 in 1/RatioScale              *)
(*   scores            in 1/(ScoreScale * WeightScale) of a point          *)
(* Rounding down keeps the sign test r < 0 of the source exact.            *)
(***************************************************************************)
EXTENDS Integers, Sequences, FiniteSets, TLC

VARIABLES
    CRYPTOCURRENCIES,   \* the module-level catalog, in dict iteration order
    hashSalt,           \* the per-process salt of Python's str hash
    rng,                \* the state of the process-wide generator of `random`
    ret,                \* what the most recent call returned or raised
    memo,               \* the outcome of an earlier statistics call (history)
    bot,                \* the TradingBot object: running, db, its run() loop
    workers,            \* threads that each run one statistics call
    risk_manager,       \* the bot's RiskManager object
    portfolio,          \* the bot's PortfolioTracker object
    now,                \* datetime.now(): days since the bot was constructed
    clock               \* time.time(): seconds since the bot was constructed

vars == <<CRYPTOCURRENCIES, hashSalt, rng, ret, memo, bot, workers, risk_manager,
          portfolio, now, clock>>

(***************************************************************************)
(* Bounds of the model.                                                    *)
(***************************************************************************)
MaxSalt == 1            \* hash salts 0..MaxSalt
MaxSims == 2            \* simulation counts -1..MaxSims of a direct caller
TopSimulations == 2     \* stands for simulations=2000 / 1000 of the orchestrators
MaxDays == 3            \* generate_price_data(days) with days in 0..MaxDays
MaxTopN == 4            \* top_n in -1..MaxTopN
MaxJitter == 2          \* consecutive draws of random.uniform between two calls
MaxIterations == 3      \* passes of the bot's loop
MaxReturns == 10        \* terminal returns of one statistics call: 1..MaxReturns
MaxTradingDays == 1     \* midnights the bot runs through
MaxCashDays == 20       \* midnights the paper portfolio is followed through
MaxSeconds == 120       \* seconds the price cache is followed for
MaxSwitches == 1        \* preemptions of an unfinished statistics thread

(***************************************************************************)
(* Fixed point units and program constants.                                *)
(***************************************************************************)
RateScale == 1000       \* the 1 of `1 + daily_return`
ZScale == 10
PctScale == 10
RatioScale == 100
ScoreScale == 100
WeightScale == 100      \* weights 0.35 ... are 35/WeightScale
DAYS == 30              \* for day in range(30)
AnalysisTopN == 10      \* get_top_recommendations(top_n=10, silent=True)
JitterPerMille == 20    \* random.uniform(-0.02, 0.02)

Names == <<"Bitcoin", "Ethereum", "Solana">>

NoError == "none"

(***************************************************************************)
(* Arithmetic helpers.                                                     *)
(***************************************************************************)
FloorDiv(a, b) == IF b > 0 THEN a \div b ELSE (-a) \div (-b)

Min2(a, b) == IF a <= b THEN a ELSE b
Max2(a, b) == IF a >= b THEN a ELSE b

RECURSIVE SumSeq(_)
SumSeq(s) == IF Len(s) = 0 THEN 0 ELSE Head(s) + SumSeq(Tail(s))

RECURSIVE MinSeq(_)
MinSeq(s) == IF Len(s) = 1 THEN s[1] ELSE Min2(Head(s), MinSeq(Tail(s)))

RECURSIVE SqrtSearch(_, _, _)
SqrtSearch(n, lo, hi) ==
    IF lo >= hi THEN lo
    ELSE LET mid == (lo + hi + 1) \div 2
         IN  IF mid <= n \div mid THEN SqrtSearch(n, mid, hi)
             ELSE SqrtSearch(n, lo, mid - 1)

\* math.sqrt, rounded down
Sqrt(n) == IF n <= 0 THEN 0 ELSE SqrtSearch(n, 1, Min2(n, 46340))

RECURSIVE InsertAscending(_, _)
InsertAscending(x, s) ==
    IF Len(s) = 0 THEN <<x>>
    ELSE IF x < Head(s) THEN <<x>> \o s
    ELSE <<Head(s)>> \o InsertAscending(x, Tail(s))

\* the list left in the order of the trials
Unsorted(s) == s

RECURSIVE sorted(_)
sorted(s) == IF Len(s) = 0 THEN <<>>
             ELSE InsertAscending(s[Len(s)], sorted(SubSeq(s, 1, Len(s) - 1)))

(***************************************************************************)
(* The generator of the `random` module.  A generator value is its state   *)
(* and the number of uniform draws taken from it since it was last seeded  *)
(* (the count is an observation, the code does not keep it).  A uniform    *)
(* draw u stands for the real number u / Grid in [0, 1).  State 0 is the   *)
(* state whose next draw is exactly 0.0; no seeded stream passes through   *)
(* it within the draws one call takes.                                     *)
(***************************************************************************)
CosTenths == <<10, 9, 7, 4, 0, -4, -7, -9, -10, -9, -7, -4, 0, 4, 7, 9>>
RadiusTenths == <<24, 20, 18, 17, 15, 14, 13, 12, 11, 10, 9, 8, 6, 5, 4>>
Grid == Len(CosTenths)
Period == 8 * Grid - 1

RngStates == 0 .. Period

Advance(x) == 1 + ((3 * x + 6) % Period)

Readout(x) == IF x = 0 THEN 0 ELSE 1 + (x % (Grid - 1))

\* random.random()
random(g) == [u |-> Readout(g.state), g |-> [state |-> Advance(g.state), draws |-> g.draws + 1]]

StrCode(s) ==
    CASE s = "Bitcoin" -> 1
      [] s = "Ethereum" -> 2
      [] s = "Solana" -> 4
      [] OTHER -> 0

\* hash(crypto + suffix): salted per process, fixed within one process
hash(crypto, suffix) ==
    (StrCode(crypto) + (IF suffix = "momentum" THEN 3 ELSE 0)) * (2 * hashSalt + 1) + hashSalt

\* a seed call that leaves the generator as it is
SeedIgnored(g, h) == g

\* random.seed(hash(...) % 2**32)
seed(g, h) == [state |-> 1 + (h % Period), draws |-> 0]

\* random.uniform(a, b): a + (b - a) * random()
uniform(g, a, b) ==
    LET d == random(g)
    IN  [x |-> a + FloorDiv((b - a) * d.u, Grid), g |-> d.g]

\* math.sqrt(-2 * math.log(u1)) * math.cos(2 * math.pi * u2) for u1 > 0
BoxMuller(u1, u2) == FloorDiv(RadiusTenths[u1] * CosTenths[u2 + 1], ZScale)

\* normal_random(): Box-Muller from two uniform draws
normal_random(g) ==
    LET d1 == random(g)
        d2 == random(d1.g)
    IN  IF d1.u = 0
        THEN [err |-> "ValueError", z |-> 0, g |-> d2.g]
        ELSE [err |-> NoError, z |-> BoxMuller(d1.u, d2.u), g |-> d2.g]

(***************************************************************************)
(* One multiplicative step of the price path.                              *)
(***************************************************************************)
StepPrice(price, drift, volatility, random_shock) ==
    LET daily_return == drift + FloorDiv(volatility * random_shock, ZScale)
    IN  FloorDiv(price * (RateScale + daily_return), RateScale)

\* price = price * (1 + daily_return) with the shock d just drawn; st is
\* the loop's state [err, price, g]
ApplyShock(st, a, d) ==
    IF d.err # NoError
    THEN [err |-> d.err, price |-> st.price, g |-> d.g]
    ELSE [err |-> NoError,
          price |-> StepPrice(st.price, a.drift, a.volatility, d.z),
          g |-> d.g]

\* one pass of the body of `for day in range(days)`; a is the asset's
\* parameters
DayStep(st, a) == ApplyShock(st, a, normal_random(st.g))

\* the inner loop `for day in range(days)`
RECURSIVE Walk(_, _, _)
Walk(st, a, days) ==
    IF days <= 0 \/ st.err # NoError THEN st
    ELSE Walk(DayStep(st, a), a, days - 1)

PathStart(price, g) == [err |-> NoError, price |-> price, g |-> g]

\* return_pct = ((price - initial_price) / initial_price) * 100
ReturnPct(price, initial_price) ==
    FloorDiv((price - initial_price) * 100 * PctScale, initial_price)

\* the end of a trial whose walk ended as w: return_pct is appended; st is
\* the outer loop's state [err, final_returns, final_prices, g] (final_prices
\* is an observation)
EndTrial(st, params, w) ==
    IF w.err # NoError
    THEN [err |-> w.err, final_returns |-> st.final_returns,
          final_prices |-> st.final_prices, g |-> w.g]
    ELSE IF params.price = 0
    THEN [err |-> "ZeroDivisionError", final_returns |-> st.final_returns,
          final_prices |-> Append(st.final_prices, w.price), g |-> w.g]
    ELSE [err |-> NoError,
          final_returns |-> Append(st.final_returns,
                                   ReturnPct(w.price, params.price)),
          final_prices |-> Append(st.final_prices, w.price), g |-> w.g]

\* a trial that applies one step fewer than range(30)
TrialStepShort(st, params) ==
    EndTrial(st, params, Walk(PathStart(params.price, st.g), params, DAYS - 1))

\* one pass of the body of `for _ in range(simulations)`
TrialStep(st, params) ==
    EndTrial(st, params, Walk(PathStart(params.price, st.g), params, DAYS))

\* the outer loop `for _ in range(simulations)`
RECURSIVE Trials(_, _, _)
Trials(st, params, left) ==
    IF left <= 0 \/ st.err # NoError THEN st
    ELSE Trials(TrialStep(st, params), params, left - 1)

TrialsStart(g) ==
    [err |-> NoError, final_returns |-> <<>>, final_prices |-> <<>>, g |-> g]

(***************************************************************************)
(* Statistics of the terminal returns (profit maximizer).                  *)
(***************************************************************************)
\* a trial that ends flat counted as a loss
IsLossOrFlat(r) == r <= 0

\* r < 0
IsLoss(r) == r < 0

\* the percentile read one element too high
PercentileAbove(sorted_returns, q) ==
    sorted_returns[Min2(((Len(sorted_returns) * q) \div 100) + 2, Len(sorted_returns))]

\* sorted_returns[int(len(sorted_returns) * q)], q in hundredths (1-based here)
Percentile(sorted_returns, q) ==
    sorted_returns[((Len(sorted_returns) * q) \div 100) + 1]

SumSquaresAbout(s, c) == SumSeq([i \in 1 .. Len(s) |-> (s[i] - c) * (s[i] - c)])

Ratio(num, den) == FloorDiv(num * RatioScale, den)

Finite(v) == [inf |-> FALSE, val |-> v]

\* a finite value in the place of float('inf')
NotInfinite == [inf |-> FALSE, val |-> 0]

\* float('inf')
Infinity == [inf |-> TRUE, val |-> 0]

NoStats ==
    [avg_return |-> 0, median_return |-> 0, p10 |-> 0, p25 |-> 0, p75 |-> 0,
     p90 |-> 0, volatility |-> 0, prob_loss |-> 0, sharpe_ratio |-> 0,
     sortino_ratio |-> Finite(0), max_loss |-> 0]

\* lines 104-151 of crypto_profit_maximizer.py; upside_potential and
\* downside_risk repeat p90 and p10
Statistics(final_returns) ==
    LET n == Len(final_returns)
        avg_return == FloorDiv(SumSeq(final_returns), n)
        sorted_returns == sorted(final_returns)
        losses == SelectSeq(final_returns, IsLoss)
        variance == FloorDiv(SumSquaresAbout(final_returns, avg_return), n)
        std_dev == Sqrt(variance)
        downside_returns == SelectSeq(final_returns, IsLoss)
        downside_variance ==
            FloorDiv(SumSquaresAbout(downside_returns, 0), Len(downside_returns))
        downside_dev == Sqrt(downside_variance)
    IN  [avg_return |-> avg_return,
         median_return |-> Percentile(sorted_returns, 50),
         p10 |-> Percentile(sorted_returns, 10),
         p25 |-> Percentile(sorted_returns, 25),
         p75 |-> Percentile(sorted_returns, 75),
         p90 |-> Percentile(sorted_returns, 90),
         volatility |-> std_dev,
         prob_loss |-> FloorDiv(Len(losses) * 100 * PctScale, n),
         sharpe_ratio |-> IF std_dev > 0 THEN Ratio(avg_return, std_dev) ELSE 0,
         sortino_ratio |->
             IF Len(downside_returns) > 0
             THEN Finite(IF downside_dev > 0 THEN Ratio(avg_return, downside_dev) ELSE 0)
             ELSE IF avg_return > 0 THEN Infinity ELSE Finite(0),
         max_loss |-> MinSeq(final_returns)]

\* lines 103-151 on the trials t: [err, stats, final_returns, final_prices, g]
Bundle(t) ==
    IF t.err # NoError
    THEN [err |-> t.err, stats |-> NoStats, final_returns |-> t.final_returns,
          final_prices |-> t.final_prices, g |-> t.g]
    ELSE IF Len(t.final_returns) = 0
    THEN [err |-> "ZeroDivisionError", stats |-> NoStats,
          final_returns |-> <<>>, final_prices |-> <<>>, g |-> t.g]
    ELSE [err |-> NoError, stats |-> Statistics(t.final_returns),
          final_returns |-> t.final_returns, final_prices |-> t.final_prices,
          g |-> t.g]

\* simulate_30_day_returns(crypto, params, simulations) of the profit
\* maximizer, called with the process generator in state g
simulate_30_day_returns(g, crypto, params, simulations) ==
    Bundle(Trials(TrialsStart(seed(g, hash(crypto, ""))), params, simulations))

(***************************************************************************)
(* Scores.  A score is kept in 1/(ScoreScale * WeightScale) of a point.    *)
(***************************************************************************)
PctToScore(x) == FloorDiv(x * ScoreScale, PctScale)
RatioToScore(x) == FloorDiv(x * ScoreScale, RatioScale)

FullScore == 100 * ScoreScale

\* min(max(x, 0), 100)
Clip(x) == Min2(Max2(x, 0), FullScore)

\* calculate_profit_score(crypto, params, stats) of the profit maximizer
calculate_profit_score(crypto, params, stats) ==
    LET return_score == Clip(PctToScore(stats.avg_return * 3))
        upside_score == Clip(PctToScore(stats.p90 * 2))
        sortino_score == IF stats.sortino_ratio.inf THEN FullScore
                         ELSE Clip(RatioToScore(stats.sortino_ratio.val * 15))
        downside_score == Max2(PctToScore(100 * PctScale + stats.p10), 0)
        sharpe_score == Clip(RatioToScore(stats.sharpe_ratio * 25))
    IN  return_score * 35 + upside_score * 25 + sortino_score * 20
          + downside_score * 15 + sharpe_score * 5

\* calculate_composite_score(crypto, stats, momentum) of the predictor
calculate_composite_score(crypto, stats, momentum) ==
    LET return_score == Clip(PctToScore(stats.avg_return * 2))
        sharpe_score == Clip(RatioToScore(stats.sharpe_ratio * 20))
        momentum_score == Clip(PctToScore(momentum * 2))
        risk_score == Max2(PctToScore(100 * PctScale - stats.prob_loss), 0)
    IN  return_score * 40 + sharpe_score * 30 + momentum_score * 20
          + risk_score * 10

(***************************************************************************)
(* The catalog.  The predictor and the trading simulator read their        *)
(* parameters from module-level dicts keyed by the asset's name.           *)
(***************************************************************************)
Asset(price, volatility, drift) ==
    [price |-> price, volatility |-> volatility, drift |-> drift]

Steady == Asset(10000, 0, 10)       \* price 100, volatility 0, drift 0.01
Volatile == Asset(10000, 30, 8)     \* volatility 0.03, drift 0.008
Crash == Asset(10000, 0, -1000)     \* drift -1: the price falls to 0
Boom == Asset(10000, 0, 20)         \* drift 0.02
ZeroPrice == Asset(0, 30, 1)
NegativePrice == Asset(-10000, 0, 10)

ValidProfiles == {Steady, Volatile, Crash, Boom}
CatalogProfiles == {Steady, Volatile, Crash, ZeroPrice}
Profiles == ValidProfiles \cup {ZeroPrice, NegativePrice}

NameSet == {Names[i] : i \in 1 .. Len(Names)}

Entry(crypto, params) ==
    [crypto |-> crypto, price |-> params.price,
     volatility |-> params.volatility, drift |-> params.drift]

Catalogs ==
    UNION {{[i \in 1 .. n |-> Entry(Names[i], ps[i])] :
               ps \in [1 .. n -> CatalogProfiles]} : n \in 0 .. Len(Names)}

\* the position of crypto in the catalog, 0 when it is no key of it
Position(catalog, crypto) ==
    IF \E i \in 1 .. Len(catalog) : catalog[i].crypto = crypto
    THEN CHOOSE i \in 1 .. Len(catalog) : catalog[i].crypto = crypto
    ELSE 0

ParamsOf(e) == Asset(e.price, e.volatility, e.drift)

(***************************************************************************)
(* The predictor: simulate_30_day_returns(crypto, simulations),            *)
(* calculate_momentum_score(crypto).                                       *)
(***************************************************************************)
NoPredictorStats ==
    [avg_return |-> 0, median_return |-> 0, best_case |-> 0, worst_case |-> 0,
     volatility |-> 0, prob_loss |-> 0, sharpe_ratio |-> 0]

PredictorStatistics(final_returns) ==
    LET n == Len(final_returns)
        avg_return == FloorDiv(SumSeq(final_returns), n)
        sorted_returns == sorted(final_returns)
        losses == SelectSeq(final_returns, IsLoss)
        std_dev == Sqrt(FloorDiv(SumSquaresAbout(final_returns, avg_return), n))
    IN  [avg_return |-> avg_return,
         median_return |-> Percentile(sorted_returns, 50),
         best_case |-> Percentile(sorted_returns, 90),
         worst_case |-> Percentile(sorted_returns, 10),
         volatility |-> std_dev,
         prob_loss |-> FloorDiv(Len(losses) * 100 * PctScale, n),
         sharpe_ratio |-> IF std_dev > 0 THEN Ratio(avg_return, std_dev) ELSE 0]

\* lines 89-114 on the trials t
PredictorBundle(t) ==
    IF t.err # NoError
    THEN [err |-> t.err, stats |-> NoPredictorStats,
          final_returns |-> t.final_returns, final_prices |-> t.final_prices,
          g |-> t.g]
    ELSE IF Len(t.final_returns) = 0
    THEN [err |-> "ZeroDivisionError", stats |-> NoPredictorStats,
          final_returns |-> <<>>, final_prices |-> <<>>, g |-> t.g]
    ELSE [err |-> NoError, stats |-> PredictorStatistics(t.final_returns),
          final_returns |-> t.final_returns, final_prices |-> t.final_prices,
          g |-> t.g]

predictor_simulate_30_day_returns(g, catalog, crypto, simulations) ==
    IF Position(catalog, crypto) = 0
    THEN [err |-> "KeyError", stats |-> NoPredictorStats,
          final_returns |-> <<>>, final_prices |-> <<>>,
          g |-> seed(g, hash(crypto, ""))]
    ELSE PredictorBundle(Trials(TrialsStart(seed(g, hash(crypto, ""))),
                                ParamsOf(catalog[Position(catalog, crypto)]),
                                simulations))

\* momentum_score from the two walks; price_7d and price_30d are
\* observations
WeightedMomentum(a, w7, w30) ==
    IF w30.err # NoError THEN [err |-> w30.err, momentum |-> 0, g |-> w30.g]
    ELSE [err |-> NoError,
          momentum |-> FloorDiv(ReturnPct(w7.price, a.price) * 7
                                  + ReturnPct(w30.price, a.price) * 3, 10),
          price_7d |-> w7.price, price_30d |-> w30.price,
          g |-> w30.g]

\* lines 129-140, after the 7-day walk ended as w7
AfterWeek(a, w7) ==
    IF w7.err # NoError THEN [err |-> w7.err, momentum |-> 0, g |-> w7.g]
    ELSE IF a.price = 0
    THEN [err |-> "ZeroDivisionError", momentum |-> 0, g |-> w7.g]
    ELSE WeightedMomentum(a, w7, Walk(PathStart(a.price, w7.g), a, 30))

\* the momentum of the catalog's entry a, the generator just seeded
MomentumOf(a, g0) == AfterWeek(a, Walk(PathStart(a.price, g0), a, 7))

\* the momentum runs on the generator as the caller left it
MomentumWithoutSeed(g, catalog, crypto) ==
    IF Position(catalog, crypto) = 0
    THEN [err |-> "KeyError", momentum |-> 0, g |-> g]
    ELSE MomentumOf(catalog[Position(catalog, crypto)], g)

calculate_momentum_score(g, catalog, crypto) ==
    IF Position(catalog, crypto) = 0
    THEN [err |-> "KeyError", momentum |-> 0, g |-> seed(g, hash(crypto, "momentum"))]
    ELSE MomentumOf(catalog[Position(catalog, crypto)],
                    seed(g, hash(crypto, "momentum")))

(***************************************************************************)
(* The trading simulator: generate_price_data(crypto, days).               *)
(***************************************************************************)
\* data.append(...) and the next price from the shock d just drawn; st is
\* the loop's state [err, price, data, shocks, g], shocks lists the normal
\* draws taken (an observation)
RecordAndStep(st, a, d) ==
    IF d.err # NoError
    THEN [err |-> d.err, price |-> st.price, data |-> Append(st.data, st.price),
          shocks |-> st.shocks, g |-> d.g]
    ELSE [err |-> NoError,
          price |-> StepPrice(st.price, a.drift, a.volatility, d.z),
          data |-> Append(st.data, st.price),
          shocks |-> Append(st.shocks, d.z), g |-> d.g]

\* a pass that draws and steps on the last record too
RecordStepAlwaysDraws(st, a, i, days) ==
    RecordAndStep(st, a, normal_random(st.g))

\* one pass of the body of `for i in range(days)`
RecordStep(st, a, i, days) ==
    IF i < days - 1
    THEN RecordAndStep(st, a, normal_random(st.g))
    ELSE [err |-> NoError, price |-> st.price, data |-> Append(st.data, st.price),
          shocks |-> st.shocks, g |-> st.g]

\* the loop `for i in range(days)`
RECURSIVE PriceLoop(_, _, _, _)
PriceLoop(st, a, i, days) ==
    IF i >= days \/ st.err # NoError THEN st
    ELSE PriceLoop(RecordStep(st, a, i, days), a, i + 1, days)

\* return data; nothing is returned when the loop raised
ReturnData(r) ==
    [err |-> r.err, data |-> IF r.err = NoError THEN r.data ELSE <<>>,
     shocks |-> r.shocks, g |-> r.g]

generate_price_data(g, catalog, crypto, days) ==
    IF Position(catalog, crypto) = 0
    THEN [err |-> "KeyError", data |-> <<>>, shocks |-> <<>>,
          g |-> seed(g, hash(crypto, ""))]
    ELSE ReturnData(PriceLoop([err |-> NoError,
                               price |-> catalog[Position(catalog, crypto)].price,
                               data |-> <<>>, shocks |-> <<>>,
                               g |-> seed(g, hash(crypto, ""))],
                              catalog[Position(catalog, crypto)], 0, days))

(***************************************************************************)
(* Ranking and allocation: get_top_recommendations(top_n) of the profit    *)
(* maximizer and the ranking loop of the predictor's main().               *)
(***************************************************************************)
\* a comparison that lets a later equal element overtake
StaysAheadStrict(a, b) == a.score > b.score

\* an element a already placed stays ahead of a later element b: a stable
\* sort by score with reverse=True
StaysAhead(a, b) == a.score >= b.score

RECURSIVE InsertRanked(_, _)
InsertRanked(x, s) ==
    IF Len(s) = 0 THEN <<x>>
    ELSE IF StaysAhead(Head(s), x) THEN <<Head(s)>> \o InsertRanked(x, Tail(s))
    ELSE <<x>> \o s

\* results.sort(key=lambda x: x['score'], reverse=True)
RECURSIVE SortByScore(_)
SortByScore(s) ==
    IF Len(s) = 0 THEN <<>>
    ELSE InsertRanked(s[Len(s)], SortByScore(SubSeq(s, 1, Len(s) - 1)))

\* results[:top_n]
Slice(s, top_n) ==
    IF top_n >= 0 THEN SubSeq(s, 1, Min2(top_n, Len(s)))
    ELSE SubSeq(s, 1, Max2(Len(s) + top_n, 0))

\* a total over every analysed asset instead of the returned ones
TotalScoreOfAll(results, top_results) ==
    SumSeq([i \in 1 .. Len(results) |-> results[i].score])

\* total_score = sum(r['score'] for r in top_results)
TotalScore(results, top_results) ==
    SumSeq([i \in 1 .. Len(top_results) |-> top_results[i].score])

\* (r['score'] / total_score) * 100, kept as the exact fraction num / den
AllocationPct(score, total_score) == [num |-> score * 100, den |-> total_score]

\* lines 213-222 with the statistics call's outcome r: the score and the
\* appended result; st is the loop's state [err, failed, results, g]
Analysed(st, e, r) ==
    IF r.err # NoError
    THEN [err |-> r.err, failed |-> e.crypto, results |-> st.results, g |-> r.g]
    ELSE [err |-> NoError, failed |-> "",
          results |-> Append(st.results,
                             [crypto |-> e.crypto,
                              score |-> calculate_profit_score(e.crypto, ParamsOf(e),
                                                               r.stats),
                              price |-> e.price,
                              avg_return |-> r.stats.avg_return]),
          g |-> r.g]

\* one pass of the body of the loop over CRYPTOCURRENCIES.items()
AnalyzeStep(st, e) ==
    Analysed(st, e,
             simulate_30_day_returns(st.g, e.crypto, ParamsOf(e), TopSimulations))

\* the loop over CRYPTOCURRENCIES.items()
RECURSIVE AnalyzeAll(_, _, _)
AnalyzeAll(st, catalog, i) ==
    IF i > Len(catalog) \/ st.err # NoError THEN st
    ELSE AnalyzeAll(AnalyzeStep(st, catalog[i]), catalog, i + 1)

AnalysisStart(g) == [err |-> NoError, failed |-> "", results |-> <<>>, g |-> g]

WithAllocation(r, allocation_pct) ==
    [crypto |-> r.crypto, score |-> r.score, price |-> r.price,
     avg_return |-> r.avg_return, allocation_pct |-> allocation_pct]

\* lines 231-239 on the sorted results
Allocate(results, top_n, g) ==
    LET top_results == Slice(results, top_n)
        total_score == TotalScore(results, top_results)
    IN  IF Len(top_results) > 0 /\ total_score = 0
        THEN [err |-> "ZeroDivisionError", failed |-> "", results |-> results,
              top_results |-> <<>>, g |-> g]
        ELSE [err |-> NoError, failed |-> "", results |-> results,
              top_results |->
                  [i \in 1 .. Len(top_results) |->
                      WithAllocation(top_results[i],
                          AllocationPct(top_results[i].score, total_score))],
              g |-> g]

\* lines 228-239 after the loop ended as a
Recommend(a, top_n) ==
    IF a.err # NoError
    THEN [err |-> a.err, failed |-> a.failed, results |-> <<>>,
          top_results |-> <<>>, g |-> a.g]
    ELSE Allocate(SortByScore(a.results), top_n, a.g)

\* get_top_recommendations(top_n, silent): [err, failed, results, top_results, g];
\* results (the sorted list) and failed (the asset whose analysis raised) are
\* observations
get_top_recommendations(g, catalog, top_n) ==
    Recommend(AnalyzeAll(AnalysisStart(g), catalog, 1), top_n)

\* lines 188-202 with the statistics r and the momentum call's outcome m
Scored(st, e, r, m) ==
    IF m.err # NoError
    THEN [err |-> m.err, failed |-> e.crypto, results |-> st.results, g |-> m.g]
    ELSE [err |-> NoError, failed |-> "",
          results |-> Append(st.results,
                             [crypto |-> e.crypto,
                              score |-> calculate_composite_score(e.crypto, r.stats,
                                                                  m.momentum),
                              price |-> e.price,
                              avg_return |-> r.stats.avg_return]),
          g |-> m.g]

\* lines 185-202 with the statistics call's outcome r
Predicted(st, catalog, e, r) ==
    IF r.err # NoError
    THEN [err |-> r.err, failed |-> e.crypto, results |-> st.results, g |-> r.g]
    ELSE Scored(st, e, r, calculate_momentum_score(r.g, catalog, e.crypto))

\* one pass of the body of `for crypto in CRYPTOCURRENCIES` of the
\* predictor's main(); st is the loop's state [err, failed, results, g]
PredictStep(st, catalog, e) ==
    Predicted(st, catalog, e,
              predictor_simulate_30_day_returns(st.g, catalog, e.crypto,
                                                TopSimulations))

\* the loop `for crypto in CRYPTOCURRENCIES` of the predictor's main()
RECURSIVE PredictAll(_, _, _)
PredictAll(st, catalog, i) ==
    IF i > Len(catalog) \/ st.err # NoError THEN st
    ELSE PredictAll(PredictStep(st, catalog, catalog[i]), catalog, i + 1)

\* results.sort(...) after the loop ended as a
Ranked(a) ==
    IF a.err # NoError THEN [err |-> a.err, results |-> <<>>, g |-> a.g]
    ELSE [err |-> NoError, results |-> SortByScore(a.results), g |-> a.g]

\* main() of the predictor up to results.sort: [err, results, g]
predictor_main(g, catalog) == Ranked(PredictAll(AnalysisStart(g), catalog, 1))

(***************************************************************************)
(* Calls of the engine.  ret records the call, its arguments and its       *)
(* outcome: err, the returned value, and g, the generator on return with   *)
(* the number of uniform draws the call took.                              *)
(***************************************************************************)
NoCall == [fn |-> "none", err |-> NoError]

Gen(state) == [state |-> state, draws |-> 0]

SimulateOutcome(crypto, params, simulations) ==
    [fn |-> "simulate_30_day_returns", crypto |-> crypto, params |-> params,
     simulations |-> simulations]
        @@ simulate_30_day_returns(Gen(rng), crypto, params, simulations)

SimulateCall(crypto, params, simulations) ==
    /\ ret' = SimulateOutcome(crypto, params, simulations)
    /\ rng' = ret'.g.state
    /\ UNCHANGED <<CRYPTOCURRENCIES, hashSalt, memo, bot, workers, risk_manager, portfolio, now, clock>>

PredictorSimulateOutcome(crypto, simulations) ==
    [fn |-> "predictor.simulate_30_day_returns", crypto |-> crypto,
     simulations |-> simulations]
        @@ predictor_simulate_30_day_returns(Gen(rng), CRYPTOCURRENCIES, crypto,
                                             simulations)

PredictorSimulateCall(crypto, simulations) ==
    /\ ret' = PredictorSimulateOutcome(crypto, simulations)
    /\ rng' = ret'.g.state
    /\ UNCHANGED <<CRYPTOCURRENCIES, hashSalt, memo, bot, workers, risk_manager, portfolio, now, clock>>

\* `after` notes which call came before it
MomentumCall(crypto) ==
    /\ ret' = [fn |-> "calculate_momentum_score", crypto |-> crypto,
               after |-> ret.fn]
                  @@ calculate_momentum_score(Gen(rng), CRYPTOCURRENCIES, crypto)
    /\ rng' = ret'.g.state
    /\ UNCHANGED <<CRYPTOCURRENCIES, hashSalt, memo, bot, workers, risk_manager, portfolio, now, clock>>

\* calculate_profit_score on the bundle the last statistics call returned
ProfitScoreCall ==
    /\ ret.fn = "simulate_30_day_returns"
    /\ ret.err = NoError
    /\ ret' = [fn |-> "calculate_profit_score", err |-> NoError,
               crypto |-> ret.crypto, stats |-> ret.stats,
               score |-> calculate_profit_score(ret.crypto, ret.params, ret.stats)]
    /\ UNCHANGED <<CRYPTOCURRENCIES, hashSalt, rng, memo, bot, workers, risk_manager, portfolio, now, clock>>

MomentumValues == {-2000, -1, 0, 1, 250, 500, 2000}

\* calculate_composite_score on the bundle the last predictor statistics
\* call returned, with any momentum value
CompositeScoreCall(momentum) ==
    /\ ret.fn = "predictor.simulate_30_day_returns"
    /\ ret.err = NoError
    /\ ret' = [fn |-> "calculate_composite_score", err |-> NoError,
               crypto |-> ret.crypto, stats |-> ret.stats, momentum |-> momentum,
               score |-> calculate_composite_score(ret.crypto, ret.stats, momentum)]
    /\ UNCHANGED <<CRYPTOCURRENCIES, hashSalt, rng, memo, bot, workers, risk_manager, portfolio, now, clock>>

GeneratePriceDataCall(crypto, days) ==
    /\ ret' = [fn |-> "generate_price_data", crypto |-> crypto, days |-> days]
                  @@ generate_price_data(Gen(rng), CRYPTOCURRENCIES, crypto, days)
    /\ rng' = ret'.g.state
    /\ UNCHANGED <<CRYPTOCURRENCIES, hashSalt, memo, bot, workers, risk_manager, portfolio, now, clock>>

GetTopRecommendationsCall(top_n) ==
    /\ ret' = [fn |-> "get_top_recommendations", top_n |-> top_n]
                  @@ get_top_recommendations(Gen(rng), CRYPTOCURRENCIES, top_n)
    /\ rng' = ret'.g.state
    /\ UNCHANGED <<CRYPTOCURRENCIES, hashSalt, memo, bot, workers, risk_manager, portfolio, now, clock>>

PredictorMainCall ==
    /\ ret' = [fn |-> "predictor.main"] @@ predictor_main(Gen(rng), CRYPTOCURRENCIES)
    /\ rng' = ret'.g.state
    /\ UNCHANGED <<CRYPTOCURRENCIES, hashSalt, memo, bot, workers, risk_manager, portfolio, now, clock>>

\* a statistics call whose outcome is kept for a later comparison
RecordedSimulateCall(crypto, params, simulations) ==
    /\ ret' = SimulateOutcome(crypto, params, simulations)
    /\ memo' = ret'
    /\ rng' = ret'.g.state
    /\ UNCHANGED <<CRYPTOCURRENCIES, hashSalt, bot, workers, risk_manager, portfolio, now, clock>>

RecordedPredictorSimulateCall(crypto, simulations) ==
    /\ ret' = PredictorSimulateOutcome(crypto, simulations)
    /\ memo' = ret'
    /\ rng' = ret'.g.state
    /\ UNCHANGED <<CRYPTOCURRENCIES, hashSalt, bot, workers, risk_manager, portfolio, now, clock>>

\* a later statistics call; `after` notes which call came before it
RepeatedSimulateCall(crypto, params, simulations) ==
    /\ memo # NoCall
    /\ ret' = [after |-> ret.fn] @@ SimulateOutcome(crypto, params, simulations)
    /\ rng' = ret'.g.state
    /\ UNCHANGED <<CRYPTOCURRENCIES, hashSalt, memo, bot, workers, risk_manager, portfolio, now, clock>>

RepeatedPredictorSimulateCall(crypto, simulations) ==
    /\ memo # NoCall
    /\ ret' = [after |-> ret.fn] @@ PredictorSimulateOutcome(crypto, simulations)
    /\ rng' = ret'.g.state
    /\ UNCHANGED <<CRYPTOCURRENCIES, hashSalt, memo, bot, workers, risk_manager, portfolio, now, clock>>

\* MarketData.get_current_price on its fallback branch: one draw of
\* random.uniform from the process generator, no seeding; n counts the
\* consecutive calls
OtherDraw ==
    /\ ret.fn = "get_current_price" => ret.n < MaxJitter
    /\ ret' = [fn |-> "get_current_price", err |-> NoError,
               n |-> IF ret.fn = "get_current_price" THEN ret.n + 1 ELSE 1]
                  @@ uniform(Gen(rng), -JitterPerMille, JitterPerMille)
    /\ rng' = ret'.g.state
    /\ UNCHANGED <<CRYPTOCURRENCIES, hashSalt, memo, bot, workers, risk_manager, portfolio, now, clock>>

\* normal_random() called with the process generator as it is; u1 is the
\* first uniform draw (an observation)
NormalRandomCall ==
    /\ ret' = [fn |-> "normal_random", u1 |-> random(Gen(rng)).u]
                  @@ normal_random(Gen(rng))
    /\ rng' = ret'.g.state
    /\ UNCHANGED <<CRYPTOCURRENCIES, hashSalt, memo, bot, workers, risk_manager, portfolio, now, clock>>

(***************************************************************************)
(* The trading bot: run(), run_once(), run_analysis(), stop().             *)
(***************************************************************************)
TRADING_PAIRS == {"Bitcoin", "Ethereum", "Solana"}

is_supported(crypto_name) == crypto_name \in TRADING_PAIRS

NewBot ==
    [where |-> "constructed", running |-> FALSE, db_open |-> TRUE, iteration |-> 0,
     analysed |-> FALSE, current_recommendations |-> <<>>]

\* stop(): self.running = False; self.db.close()
stop(b) == [b EXCEPT !.running = FALSE, !.db_open = FALSE, !.where = "returned"]

\* the price lookups of one pass: n fallback prices, one uniform draw each
RECURSIVE Jitter(_, _)
Jitter(g, n) ==
    IF n <= 0 THEN g
    ELSE Jitter(uniform(g, -JitterPerMille, JitterPerMille).g, n - 1)

Supported(rec) == is_supported(rec.crypto)

\* lines 238-249 on the outcome r of get_top_recommendations
SupportedOnly(r) ==
    [err |-> r.err, failed |-> r.failed, results |-> r.results,
     current_recommendations |-> SelectSeq(r.top_results, Supported), g |-> r.g]

\* run_analysis()
run_analysis(g, catalog) ==
    SupportedOnly(get_top_recommendations(g, catalog, AnalysisTopN))

\* run(): self.running = True, then the loop
BotRunStart ==
    /\ bot.where = "constructed"
    /\ bot' = [bot EXCEPT !.running = TRUE, !.where = "loop"]
    /\ ret' = [fn |-> "TradingBot.run", err |-> NoError]
    /\ UNCHANGED <<CRYPTOCURRENCIES, hashSalt, rng, memo, workers, risk_manager, portfolio, now, clock>>

\* the rest of the pass after run_analysis() ended as a: an exception leaves
\* run_once(), reaches `except Exception` of run() and `finally: self.stop()`
AfterAnalysis(a, lookups) ==
    IF a.err # NoError
    THEN [fn |-> "TradingBot.run_once", analysed |-> TRUE, err |-> a.err,
          failed |-> a.failed, results |-> a.results,
          bot |-> stop([bot EXCEPT !.iteration = @ + 1]), g |-> a.g]
    ELSE [fn |-> "TradingBot.run_once", analysed |-> TRUE, err |-> NoError,
          failed |-> "", results |-> a.results,
          bot |-> [bot EXCEPT !.iteration = @ + 1, !.analysed = TRUE,
                              !.current_recommendations = a.current_recommendations],
          g |-> Jitter(a.g, lookups)]

\* one pass of `while self.running` with iterations=None: run_once(), then the
\* sleep.  elapsed: ANALYSIS_INTERVAL has passed; lookups: fallback prices
\* read.  The outcome carries the bot and the generator after the pass
RunOnceOutcome(elapsed, lookups) ==
    IF ~bot.analysed \/ elapsed
    THEN AfterAnalysis(run_analysis(Gen(rng), CRYPTOCURRENCIES), lookups)
    ELSE [fn |-> "TradingBot.run_once", analysed |-> FALSE, err |-> NoError,
          failed |-> "", results |-> <<>>,
          bot |-> [bot EXCEPT !.iteration = @ + 1],
          g |-> Jitter(Gen(rng), lookups)]

BotRunOnce(elapsed, lookups) ==
    /\ bot.where = "loop"
    /\ bot.running
    /\ bot.iteration < MaxIterations
    /\ ret' = RunOnceOutcome(elapsed, lookups)
    /\ bot' = ret'.bot
    /\ rng' = ret'.g.state
    /\ UNCHANGED <<CRYPTOCURRENCIES, hashSalt, memo, workers, risk_manager, portfolio, now, clock>>

\* Ctrl-C during the sleep: except KeyboardInterrupt, finally self.stop()
BotInterrupt ==
    /\ bot.where = "loop"
    /\ bot.running
    /\ bot' = stop(bot)
    /\ ret' = [fn |-> "TradingBot.stop", err |-> NoError]
    /\ UNCHANGED <<CRYPTOCURRENCIES, hashSalt, rng, memo, workers, risk_manager, portfolio, now, clock>>

\* the bot on which run(iterations) is called
NewBotFor(iterations) == [iterations |-> iterations, calls |-> 0] @@ NewBot

\* `if iterations and iteration > iterations: break`, iteration already
\* incremented
Breaks(iterations, iteration) == iterations # 0 /\ iteration > iterations

\* one pass of `while self.running` of run(iterations): iteration += 1, the
\* break test, run_once() and the sleep; calls counts the calls of run_once.
\* After the break `finally: self.stop()` runs and run() returns
RunPass(elapsed, lookups) ==
    /\ bot.where = "loop"
    /\ bot.running
    /\ bot.iteration <= MaxIterations
    /\ IF Breaks(bot.iterations, bot.iteration + 1)
       THEN /\ ret' = [fn |-> "TradingBot.run", err |-> NoError, completed |-> TRUE]
            /\ bot' = stop([bot EXCEPT !.iteration = @ + 1])
            /\ rng' = rng
       ELSE /\ ret' = RunOnceOutcome(elapsed, lookups)
            /\ bot' = [ret'.bot EXCEPT !.calls = @ + 1]
            /\ rng' = ret'.g.state
    /\ UNCHANGED <<CRYPTOCURRENCIES, hashSalt, memo, workers, risk_manager, portfolio, now, clock>>

(***************************************************************************)
(* Statistics calls run in parallel threads of one process.  Each thread   *)
(* runs simulate_30_day_returns of the profit maximizer; random.seed and   *)
(* random.random are atomic calls on the one generator of the module       *)
(* `random`, everything between two of them is local to the thread.        *)
(* workers is [threads, running, switches]: the threads' frames, the       *)
(* thread that ran last, and how often the scheduler took the generator    *)
(* from a thread that had not finished.                                    *)
(***************************************************************************)
NoWorkers == [threads |-> <<>>, running |-> 0, switches |-> 0]

\* the frame of simulate_30_day_returns(crypto, params, simulations) on entry
StartWorker(crypto, params, simulations) ==
    [crypto |-> crypto, params |-> params, simulations |-> simulations,
     pc |-> "seed", price |-> 0, day |-> 0, u1 |-> 0, final_returns |-> <<>>,
     err |-> NoError, stats |-> NoStats]

\* the frame when the call raises
WorkerRaises(w, err) == [w EXCEPT !.pc = "done", !.err = err]

\* lines 103-151: the statistics of the frame's final_returns
WorkerReturns(w, final_returns) ==
    [w EXCEPT !.pc = "done", !.final_returns = final_returns,
              !.stats = Statistics(final_returns)]

\* lines 100-101 and the next pass of `for _ in range(simulations)`
WorkerEndTrial(w, price) ==
    IF w.params.price = 0 THEN WorkerRaises(w, "ZeroDivisionError")
    ELSE IF Len(w.final_returns) + 1 >= w.simulations
    THEN WorkerReturns(w, Append(w.final_returns, ReturnPct(price, w.params.price)))
    ELSE [w EXCEPT !.pc = "u1", !.price = w.params.price, !.day = 0,
                   !.final_returns = Append(w.final_returns,
                                            ReturnPct(price, w.params.price))]

\* lines 97-98 with the shock z, then the next pass of `for day in range(30)`
WorkerAfterShock(w, price) ==
    IF w.day + 1 >= DAYS THEN WorkerEndTrial(w, price)
    ELSE [w EXCEPT !.pc = "u1", !.price = price, !.day = w.day + 1]

\* the frame after random.seed(...) returned
WorkerAfterSeed(w) ==
    IF w.simulations <= 0 THEN WorkerRaises(w, "ZeroDivisionError")
    ELSE [w EXCEPT !.pc = "u1", !.price = w.params.price, !.day = 0]

\* the frame after random.random() returned u
WorkerAfterDraw(w, u) ==
    IF w.pc = "u1" THEN [w EXCEPT !.pc = "u2", !.u1 = u]
    ELSE IF w.u1 = 0 THEN WorkerRaises(w, "ValueError")
    ELSE WorkerAfterShock(w, StepPrice(w.price, w.params.drift,
                                       w.params.volatility, BoxMuller(w.u1, u)))

\* the thread that ran last, if any, has finished
Released ==
    IF workers.running = 0 THEN TRUE
    ELSE workers.threads[workers.running].pc = "done"

\* thread i may take the next step: it ran last, or the thread that ran last
\* has finished, or the scheduler may still preempt
MaySchedule(i) ==
    IF workers.running = i \/ Released THEN TRUE
    ELSE workers.switches < MaxSwitches

Scheduled(i, w) ==
    [threads |-> [workers.threads EXCEPT ![i] = w], running |-> i,
     switches |-> IF workers.running = i \/ Released THEN workers.switches
                  ELSE workers.switches + 1]

\* thread i executes random.seed(hash(crypto) % 2**32)
WorkerSeed(i) ==
    /\ workers.threads[i].pc = "seed"
    /\ MaySchedule(i)
    /\ rng' = seed(Gen(rng), hash(workers.threads[i].crypto, "")).state
    /\ workers' = Scheduled(i, WorkerAfterSeed(workers.threads[i]))
    /\ ret' = [fn |-> "random.seed", err |-> NoError, thread |-> i]
    /\ UNCHANGED <<CRYPTOCURRENCIES, hashSalt, memo, bot, risk_manager, portfolio, now, clock>>

\* thread i executes random.random() and runs on to its next call
WorkerDraw(i) ==
    /\ workers.threads[i].pc \in {"u1", "u2"}
    /\ MaySchedule(i)
    /\ rng' = random(Gen(rng)).g.state
    /\ workers' = Scheduled(i, WorkerAfterDraw(workers.threads[i],
                                               random(Gen(rng)).u))
    /\ ret' = [fn |-> "random.random", err |-> NoError, thread |-> i]
    /\ UNCHANGED <<CRYPTOCURRENCIES, hashSalt, memo, bot, risk_manager, portfolio, now, clock>>

(***************************************************************************)
(* The statistics part of a call whose trial loop has ended: lines 103-151 *)
(* of the profit maximizer, lines 89-114 of the predictor, on the frame's  *)
(* final_returns.                                                          *)
(***************************************************************************)
\* the frame of a statistics call after its trial loop
AfterTrials(final_returns) ==
    [StartWorker(Names[1], Volatile, Len(final_returns))
        EXCEPT !.pc = "statistics", !.final_returns = final_returns]

TrialsEnded(w) ==
    [err |-> NoError, final_returns |-> w.final_returns, final_prices |-> <<>>,
     g |-> Gen(rng)]

\* the profit maximizer's call computes its statistics and returns
AggregateCall ==
    /\ Len(workers.threads) = 1
    /\ workers.threads[1].pc = "statistics"
    /\ ret' = [fn |-> "statistics"] @@ Bundle(TrialsEnded(workers.threads[1]))
    /\ workers' = [workers EXCEPT !.threads[1].pc = "done"]
    /\ UNCHANGED <<CRYPTOCURRENCIES, hashSalt, rng, memo, bot, risk_manager, portfolio, now, clock>>

\* the predictor's call computes its statistics and returns
PredictorAggregateCall ==
    /\ Len(workers.threads) = 1
    /\ workers.threads[1].pc = "statistics"
    /\ ret' = [fn |-> "predictor.statistics"]
                  @@ PredictorBundle(TrialsEnded(workers.threads[1]))
    /\ workers' = [workers EXCEPT !.threads[1].pc = "done"]
    /\ UNCHANGED <<CRYPTOCURRENCIES, hashSalt, rng, memo, bot, risk_manager, portfolio, now, clock>>

(***************************************************************************)
(* The risk manager and the portfolio tracker of the bot, and the trade    *)
(* path of trading_bot.py.  Money is kept in ticks of 1/100 (as prices     *)
(* are), quantities in 1/QtyScale of a coin.  A positions dict is the      *)
(* sequence of its items [symbol, quantity, avg_price] in insertion order. *)
(* trade_history, entry_time and the database are written and never read   *)
(* back by the trade path; they are left out.  In live mode the exchange   *)
(* fills every order and its reply carries no fee, so that the fee is the  *)
(* 0.2% of paper mode.                                                     *)
(***************************************************************************)
MAX_POSITION_SIZE == 10000          \* 100 USD
MAX_DAILY_VOLUME == 50000           \* 500 USD
MAX_DAILY_LOSS == 20000             \* 200 USD
STOP_LOSS_PERCENTAGE == 15
MAX_POSITIONS == 10
MIN_TRADE_SIZE == 1000              \* 10 USD
CIRCUIT_BREAKER_THRESHOLD == 25
EMERGENCY_STOP == FALSE
QtyScale == 1000
FeePerMille == 2                    \* fee = value * 0.002

NoPositions == <<>>

\* RiskManager.__init__ followed by set_initial_portfolio_value(value);
\* daily_reset_time is the day it falls in
NewRiskManager(value) ==
    [daily_volume |-> 0, daily_loss |-> 0, daily_reset_time |-> 0,
     positions |-> NoPositions, circuit_breaker_active |-> FALSE,
     initial_portfolio_value |-> value]

\* PortfolioTracker.__init__(db, initial_capital)
NewPortfolio(initial_capital) ==
    [initial_capital |-> initial_capital, cash_balance |-> initial_capital,
     positions |-> NoPositions, total_fees_paid |-> 0]

\* _get_initial_capital() in paper mode: 10000.0
PaperCapital == 1000000

\* symbol in positions
Held(positions, symbol) ==
    \E i \in 1 .. Len(positions) : positions[i].symbol = symbol

\* positions[symbol]
PositionOf(positions, symbol) ==
    positions[CHOOSE i \in 1 .. Len(positions) : positions[i].symbol = symbol]

\* del positions[symbol]
Without(positions, symbol) ==
    [i \in 1 .. Cardinality({j \in 1 .. Len(positions) : positions[j].symbol # symbol}) |->
        LET kept == {j \in 1 .. Len(positions) : positions[j].symbol # symbol}
            RECURSIVE Nth(_, _)
            Nth(set, n) == LET m == CHOOSE x \in set : \A y \in set : x <= y
                           IN  IF n = 1 THEN m ELSE Nth(set \ {m}, n - 1)
        IN  positions[Nth(kept, i)]]

\* quantity * price
TradeValue(quantity, price) == FloorDiv(quantity * price, QtyScale)

\* positions after a buy: average up, or a new item at the end of the dict
AfterBuy(positions, symbol, quantity, price) ==
    IF Held(positions, symbol)
    THEN [i \in 1 .. Len(positions) |->
            IF positions[i].symbol # symbol THEN positions[i]
            ELSE [symbol |-> symbol,
                  quantity |-> positions[i].quantity + quantity,
                  avg_price |-> FloorDiv(positions[i].quantity * positions[i].avg_price
                                           + quantity * price,
                                         positions[i].quantity + quantity)]]
    ELSE Append(positions,
                [symbol |-> symbol, quantity |-> quantity, avg_price |-> price])

\* pos['quantity'] <= 0.0001
Closed(quantity) == quantity * 10000 <= QtyScale

\* positions after a sell of a held symbol: the quantity goes down, the item
\* is deleted when it is fully closed
AfterSell(positions, symbol, quantity) ==
    IF Closed(PositionOf(positions, symbol).quantity - quantity)
    THEN Without(positions, symbol)
    ELSE [i \in 1 .. Len(positions) |->
            IF positions[i].symbol # symbol THEN positions[i]
            ELSE [positions[i] EXCEPT !.quantity = @ - quantity]]

\* RiskManager.reset_daily_limits() at the day `day`
reset_daily_limits(rm, day) ==
    IF day >= rm.daily_reset_time + 1
    THEN [rm EXCEPT !.daily_volume = 0, !.daily_loss = 0, !.daily_reset_time = day]
    ELSE rm

\* a check that clears the breaker when the portfolio has recovered
CheckCircuitBreakerUnlatched(rm, current_portfolio_value) ==
    IF rm.initial_portfolio_value = 0 THEN [rm |-> rm, activated |-> FALSE]
    ELSE IF (current_portfolio_value - rm.initial_portfolio_value) * 100
               <= (-CIRCUIT_BREAKER_THRESHOLD) * rm.initial_portfolio_value
    THEN [rm |-> [rm EXCEPT !.circuit_breaker_active = TRUE], activated |-> TRUE]
    ELSE [rm |-> [rm EXCEPT !.circuit_breaker_active = FALSE], activated |-> FALSE]

\* RiskManager.check_circuit_breaker(current_portfolio_value); loss_pct <=
\* -threshold with the division by the positive initial value multiplied out
check_circuit_breaker(rm, current_portfolio_value) ==
    IF rm.initial_portfolio_value = 0 THEN [rm |-> rm, activated |-> FALSE]
    ELSE IF (current_portfolio_value - rm.initial_portfolio_value) * 100
               <= (-CIRCUIT_BREAKER_THRESHOLD) * rm.initial_portfolio_value
    THEN [rm |-> [rm EXCEPT !.circuit_breaker_active = TRUE], activated |-> TRUE]
    ELSE [rm |-> rm, activated |-> FALSE]

Abs(x) == IF x < 0 THEN -x ELSE x

\* a can_trade() that does not look at the daily loss
CanTradeWithoutLossLimit(rm) ==
    IF EMERGENCY_STOP THEN "Emergency stop activated"
    ELSE IF rm.circuit_breaker_active THEN "Circuit breaker active"
    ELSE IF rm.daily_volume >= MAX_DAILY_VOLUME THEN "Daily volume limit reached"
    ELSE "OK"

\* RiskManager.can_trade() after its reset_daily_limits(): the reason it
\* refuses, "OK" when it allows
can_trade(rm) ==
    IF EMERGENCY_STOP THEN "Emergency stop activated"
    ELSE IF rm.circuit_breaker_active THEN "Circuit breaker active"
    ELSE IF Abs(rm.daily_loss) >= MAX_DAILY_LOSS THEN "Daily loss limit reached"
    ELSE IF rm.daily_volume >= MAX_DAILY_VOLUME THEN "Daily volume limit reached"
    ELSE "OK"

\* lines 149-168 of approve_trade with no check of the daily volume
ApproveWithoutVolumeCheck(rm, symbol, side, quantity, price) ==
    IF TradeValue(quantity, price) < MIN_TRADE_SIZE THEN "Trade size below minimum"
    ELSE IF side = "buy" /\ TradeValue(quantity, price) > MAX_POSITION_SIZE
    THEN "Trade size exceeds max position"
    ELSE IF side = "buy" /\ Len(rm.positions) >= MAX_POSITIONS
              /\ ~Held(rm.positions, symbol)
    THEN "Maximum positions reached"
    ELSE "Trade approved"

\* lines 149-168 of approve_trade once can_trade() allowed: the reason of the
\* rejection, "Trade approved" otherwise
ApproveSize(rm, symbol, side, quantity, price) ==
    IF TradeValue(quantity, price) < MIN_TRADE_SIZE THEN "Trade size below minimum"
    ELSE IF side = "buy" /\ TradeValue(quantity, price) > MAX_POSITION_SIZE
    THEN "Trade size exceeds max position"
    ELSE IF rm.daily_volume + TradeValue(quantity, price) > MAX_DAILY_VOLUME
    THEN "Trade would exceed daily volume limit"
    ELSE IF side = "buy" /\ Len(rm.positions) >= MAX_POSITIONS
              /\ ~Held(rm.positions, symbol)
    THEN "Maximum positions reached"
    ELSE "Trade approved"

\* approve_trade on the risk manager rm that can_trade() has just reset
Approval(rm, symbol, side, quantity, price) ==
    IF can_trade(rm) # "OK"
    THEN [rm |-> rm, approved |-> FALSE, reason |-> can_trade(rm)]
    ELSE [rm |-> rm,
          approved |-> ApproveSize(rm, symbol, side, quantity, price) = "Trade approved",
          reason |-> ApproveSize(rm, symbol, side, quantity, price)]

\* RiskManager.approve_trade(symbol, side, quantity, price) at the day `day`:
\* [rm, approved, reason]
approve_trade(rm, day, symbol, side, quantity, price) ==
    Approval(reset_daily_limits(rm, day), symbol, side, quantity, price)

\* realized P&L of a sell: (price - avg_price) * quantity - fee
RealizedPnl(pos, quantity, price, fee) ==
    FloorDiv((price - pos.avg_price) * quantity, QtyScale) - fee

\* RiskManager.record_trade(symbol, side, quantity, price, fee)
record_trade(rm, symbol, side, quantity, price, fee) ==
    IF side = "buy"
    THEN [rm EXCEPT !.daily_volume = @ + TradeValue(quantity, price),
                    !.positions = AfterBuy(@, symbol, quantity, price)]
    ELSE IF Held(rm.positions, symbol)
    THEN [rm EXCEPT !.daily_volume = @ + TradeValue(quantity, price),
                    !.daily_loss =
                        @ + Min2(RealizedPnl(PositionOf(rm.positions, symbol),
                                             quantity, price, fee), 0),
                    !.positions = AfterSell(@, symbol, quantity)]
    ELSE [rm EXCEPT !.daily_volume = @ + TradeValue(quantity, price)]

\* RiskManager.check_stop_loss(symbol, current_price)
check_stop_loss(rm, symbol, current_price) ==
    IF ~Held(rm.positions, symbol) THEN FALSE
    ELSE (current_price - PositionOf(rm.positions, symbol).avg_price) * 100
             <= (-STOP_LOSS_PERCENTAGE) * PositionOf(rm.positions, symbol).avg_price

\* PortfolioTracker.record_buy(symbol, quantity, price, fee)
record_buy(pf, symbol, quantity, price, fee) ==
    [pf EXCEPT !.cash_balance = @ - (TradeValue(quantity, price) + fee),
               !.total_fees_paid = @ + fee,
               !.positions = AfterBuy(@, symbol, quantity, price)]

\* PortfolioTracker.record_sell(symbol, quantity, price, fee)
record_sell(pf, symbol, quantity, price, fee) ==
    [pf EXCEPT !.cash_balance = @ + (TradeValue(quantity, price) - fee),
               !.total_fees_paid = @ + fee,
               !.positions = IF Held(@, symbol) THEN AfterSell(@, symbol, quantity)
                             ELSE @]

\* PortfolioTracker.calculate_total_portfolio_value(current_prices)
calculate_total_portfolio_value(pf, current_prices) ==
    pf.cash_balance
      + SumSeq([i \in 1 .. Len(pf.positions) |->
                   TradeValue(pf.positions[i].quantity,
                              current_prices[pf.positions[i].symbol])])

\* the books of the bot: its risk manager and its portfolio tracker
Books(rm, pf) == [risk_manager |-> rm, portfolio |-> pf]

Fee(value) == FloorDiv(value * FeePerMille, 1000)

\* lines 161-177 of _execute_buy, the quantity computed and the risk
\* manager's answer a at hand
BuyApproved(b, a, symbol, usd_amount, quantity, price) ==
    IF ~a.approved
    THEN [ok |-> FALSE, reason |-> a.reason, risk_manager |-> a.rm,
          portfolio |-> b.portfolio]
    ELSE [ok |-> TRUE, reason |-> a.reason,
          risk_manager |-> record_trade(a.rm, symbol, "buy", quantity, price,
                                        Fee(usd_amount)),
          portfolio |-> record_buy(b.portfolio, symbol, quantity, price,
                                   Fee(usd_amount))]

\* TradingBot._execute_buy(symbol, usd_amount) when _get_current_price
\* returns price: [ok, reason, risk_manager, portfolio]
execute_buy(b, day, symbol, usd_amount, price) ==
    IF price <= 0
    THEN [ok |-> FALSE, reason |-> "Invalid price", risk_manager |-> b.risk_manager,
          portfolio |-> b.portfolio]
    ELSE BuyApproved(b,
                     approve_trade(b.risk_manager, day, symbol, "buy",
                                   FloorDiv(usd_amount * QtyScale, price), price),
                     symbol, usd_amount, FloorDiv(usd_amount * QtyScale, price), price)

\* lines 207-223 of _execute_sell, the risk manager's answer a at hand
SellApproved(b, a, symbol, quantity, price) ==
    IF ~a.approved
    THEN [ok |-> FALSE, reason |-> a.reason, risk_manager |-> a.rm,
          portfolio |-> b.portfolio]
    ELSE [ok |-> TRUE, reason |-> a.reason,
          risk_manager |-> record_trade(a.rm, symbol, "sell", quantity, price,
                                        Fee(TradeValue(quantity, price))),
          portfolio |-> record_sell(b.portfolio, symbol, quantity, price,
                                    Fee(TradeValue(quantity, price)))]

\* TradingBot._execute_sell(symbol, quantity) when _get_current_price returns
\* price
execute_sell(b, day, symbol, quantity, price) ==
    IF price <= 0
    THEN [ok |-> FALSE, reason |-> "Invalid price", risk_manager |-> b.risk_manager,
          portfolio |-> b.portfolio]
    ELSE SellApproved(b, approve_trade(b.risk_manager, day, symbol, "sell",
                                       quantity, price),
                      symbol, quantity, price)

\* lines 115-122 of calculate_position_size: the allocation's share of the
\* capital, capped by MAX_POSITION_SIZE and by the remaining daily volume
CappedSize(rm, allocation_pct, total_capital) ==
    Min2(Min2(FloorDiv(total_capital * allocation_pct, 100), MAX_POSITION_SIZE),
         MAX_DAILY_VOLUME - rm.daily_volume)

\* RiskManager.calculate_position_size(symbol, price, allocation_pct,
\* total_capital)
calculate_position_size(rm, symbol, price, allocation_pct, total_capital) ==
    IF CappedSize(rm, allocation_pct, total_capital) < MIN_TRADE_SIZE THEN 0
    ELSE CappedSize(rm, allocation_pct, total_capital)

\* lines 301-305 of execute_portfolio_rebalance: current_value
CurrentValue(pf, symbol, current_price) ==
    IF Held(pf.positions, symbol)
    THEN TradeValue(PositionOf(pf.positions, symbol).quantity, current_price)
    ELSE 0

\* lines 298-308: buy_amount = target_value - current_value
Shortfall(st, rec, current_prices) ==
    FloorDiv(st.portfolio_value * rec.allocation_pct, 100)
        - CurrentValue(st.portfolio, rec.symbol, current_prices[rec.symbol])

\* lines 311-314: what the loop passes to _execute_buy
BuyAmount(st, rec, current_prices) ==
    calculate_position_size(st.risk_manager, rec.symbol, current_prices[rec.symbol],
                            rec.allocation_pct, st.available_cash)

\* lines 322-324: the loop's state after _execute_buy ended as r; buys is
\* the observation of the calls made
RebalanceBought(st, rec, shortfall, buy_amount, r) ==
    [st EXCEPT !.risk_manager = r.risk_manager,
               !.portfolio = r.portfolio,
               !.available_cash = IF r.ok THEN @ - buy_amount ELSE @,
               !.buys = Append(@, [symbol |-> rec.symbol, shortfall |-> shortfall,
                                   buy_amount |-> buy_amount, ok |-> r.ok])]

\* one pass of the body of `for rec in self.current_recommendations`
RebalanceStep(st, day, rec, current_prices, fill) ==
    IF Shortfall(st, rec, current_prices) <= 0 THEN st
    ELSE IF BuyAmount(st, rec, current_prices) < MIN_TRADE_SIZE THEN st
    ELSE RebalanceBought(st, rec, Shortfall(st, rec, current_prices),
                         BuyAmount(st, rec, current_prices),
                         execute_buy(Books(st.risk_manager, st.portfolio), day,
                                     rec.symbol, BuyAmount(st, rec, current_prices),
                                     fill[rec.symbol]))

RECURSIVE RebalanceLoop(_, _, _, _, _, _)
RebalanceLoop(st, day, recommendations, i, current_prices, fill) ==
    IF i > Len(recommendations) THEN st
    ELSE RebalanceLoop(RebalanceStep(st, day, recommendations[i], current_prices, fill),
                       day, recommendations, i + 1, current_prices, fill)

\* lines 277-280: current_prices holds the recommended symbols, the value of
\* any other position counts as 0
PricesOfRecommended(recommendations, current_prices) ==
    [symbol \in DOMAIN current_prices |->
        IF \E i \in 1 .. Len(recommendations) : recommendations[i].symbol = symbol
        THEN current_prices[symbol] ELSE 0]

\* what the call leaves behind: the books and the buys it made
RebalanceOutcome(st) ==
    [risk_manager |-> st.risk_manager, portfolio |-> st.portfolio, buys |-> st.buys]

\* lines 276-328 once can_trade() allowed, rm the risk manager it has reset
Rebalanced(rm, pf, day, recommendations, current_prices, fill) ==
    RebalanceLoop([risk_manager |-> rm, portfolio |-> pf,
                   portfolio_value |-> calculate_total_portfolio_value(pf, current_prices),
                   available_cash |-> pf.cash_balance, buys |-> <<>>],
                  day, recommendations, 1, current_prices, fill)

\* TradingBot.execute_portfolio_rebalance() with the recommendations at hand,
\* when the lookups of lines 278-280 return current_prices and those of
\* _execute_buy the prices fill: [risk_manager, portfolio, buys]
execute_portfolio_rebalance(b, day, recommendations, current_prices, fill) ==
    IF recommendations = <<>>
    THEN [risk_manager |-> b.risk_manager, portfolio |-> b.portfolio, buys |-> <<>>]
    ELSE IF can_trade(reset_daily_limits(b.risk_manager, day)) # "OK"
    THEN [risk_manager |-> reset_daily_limits(b.risk_manager, day),
          portfolio |-> b.portfolio, buys |-> <<>>]
    ELSE RebalanceOutcome(
             Rebalanced(reset_daily_limits(b.risk_manager, day), b.portfolio, day,
                        recommendations,
                        PricesOfRecommended(recommendations, current_prices), fill))

\* the loop's state after the sell of pos ended as r; triggered, sold and
\* rejected are observations
StopLossSold(st, pos, r) ==
    [risk_manager |-> r.risk_manager, portfolio |-> r.portfolio,
     triggered |-> st.triggered \cup {pos.symbol},
     sold |-> IF r.ok THEN st.sold \cup {pos.symbol} ELSE st.sold,
     rejected |-> IF r.ok THEN st.rejected ELSE Append(st.rejected, r.reason)]

\* one pass of the body of `for symbol, pos in positions.items()`: seen is
\* the price the check reads, fill the price the sell reads
StopLossStep(st, day, pos, seen, fill) ==
    IF ~check_stop_loss(st.risk_manager, pos.symbol, seen) THEN st
    ELSE StopLossSold(st, pos,
                      execute_sell(Books(st.risk_manager, st.portfolio), day,
                                   pos.symbol, pos.quantity, fill))

\* the loop over the copy `positions` of the portfolio's positions
RECURSIVE StopLossLoop(_, _, _, _, _, _)
StopLossLoop(st, day, positions, i, seen, fill) ==
    IF i > Len(positions) THEN st
    ELSE StopLossLoop(StopLossStep(st, day, positions[i], seen[positions[i].symbol],
                                   fill[positions[i].symbol]),
                      day, positions, i + 1, seen, fill)

\* TradingBot.check_stop_losses() when the lookups of the loop return the
\* prices seen and those of _execute_sell the prices fill
check_stop_losses(b, day, seen, fill) ==
    StopLossLoop([risk_manager |-> b.risk_manager, portfolio |-> b.portfolio,
                  triggered |-> {}, sold |-> {}, rejected |-> <<>>],
                 day, b.portfolio.positions, 1, seen, fill)

Symbols == {"btcinr", "ethinr"}

\* prices the market data returns: 100 and 62.50
PriceLevels == {10000, 6250}

\* the amount execute_portfolio_rebalance passes to _execute_buy: the
\* position size capped at MAX_POSITION_SIZE
BuyAmounts == {MAX_POSITION_SIZE}

\* _get_initial_capital() in live mode: the INR balance of the account, 300
LiveCapital == 30000

\* TradingBot._get_initial_capital()
get_initial_capital(paper_mode) == IF paper_mode THEN PaperCapital ELSE LiveCapital

\* TradingBot.__init__(paper_mode)
NewTradingBot(paper_mode) == [paper_mode |-> paper_mode] @@ NewBot

\* execute_portfolio_rebalance calls _execute_buy(symbol, usd_amount) with an
\* amount calculate_position_size took from the available cash
ExecuteBuyCall(symbol, usd_amount, price) ==
    /\ usd_amount <= portfolio.cash_balance
    /\ ret' = [fn |-> "_execute_buy", err |-> NoError, symbol |-> symbol]
                  @@ execute_buy(Books(risk_manager, portfolio), now, symbol,
                                 usd_amount, price)
    /\ risk_manager' = ret'.risk_manager
    /\ portfolio' = ret'.portfolio
    /\ UNCHANGED <<CRYPTOCURRENCIES, hashSalt, rng, memo, bot, workers, now, clock>>

\* the bot calls check_stop_losses(); before is the portfolio's positions on
\* entry
CheckStopLossesCall(seen, fill) ==
    /\ ret' = [fn |-> "check_stop_losses", err |-> NoError,
               before |-> portfolio.positions, seen |-> seen]
                  @@ check_stop_losses(Books(risk_manager, portfolio), now, seen, fill)
    /\ risk_manager' = ret'.risk_manager
    /\ portfolio' = ret'.portfolio
    /\ UNCHANGED <<CRYPTOCURRENCIES, hashSalt, rng, memo, bot, workers, now, clock>>

\* a recommendation as run_analysis leaves it: the pair and its allocation
Recommendation(symbol, allocation_pct) ==
    [symbol |-> symbol, allocation_pct |-> allocation_pct]

\* recommendation lists of one and of two tradeable pairs
RecommendationLists ==
    {<<Recommendation("btcinr", 100)>>,
     <<Recommendation("btcinr", 50), Recommendation("ethinr", 50)>>}

\* the prices when the pairs move together
MarketLevels == {[symbol \in Symbols |-> price] : price \in PriceLevels}

\* run_once calls execute_portfolio_rebalance() after run_analysis() left
\* the recommendations; the prices do not move during the call
RebalanceCall(recommendations, current_prices) ==
    /\ ret' = [fn |-> "execute_portfolio_rebalance", err |-> NoError]
                  @@ execute_portfolio_rebalance(Books(risk_manager, portfolio), now,
                                                 recommendations, current_prices,
                                                 current_prices)
    /\ risk_manager' = ret'.risk_manager
    /\ portfolio' = ret'.portfolio
    /\ UNCHANGED <<CRYPTOCURRENCIES, hashSalt, rng, memo, bot, workers, now, clock>>

\* midnight passes, up to the day `last`
DayPasses(last) ==
    /\ now < last
    /\ now' = now + 1
    /\ ret' = [fn |-> "time.sleep", err |-> NoError]
    /\ UNCHANGED <<CRYPTOCURRENCIES, hashSalt, rng, memo, bot, workers, risk_manager,
                   portfolio, clock>>

\* the portfolio value is at or below the breaker's threshold
Breached(rm, value) ==
    value * 100 <= rm.initial_portfolio_value * (100 - CIRCUIT_BREAKER_THRESHOLD)

\* memo after a check of the breaker with the portfolio value `value`: the
\* first check at or below the threshold, and whether a later check saw the
\* value above it
BreakerHistory(value) ==
    IF memo = NoCall
    THEN IF Breached(risk_manager, value)
         THEN [fn |-> "check_circuit_breaker", err |-> NoError, value |-> value,
               recovered |-> FALSE]
         ELSE memo
    ELSE IF Breached(risk_manager, value) THEN memo
    ELSE [memo EXCEPT !.recovered = TRUE]

\* lines 367-383 of run_once: the prices of the positions, the portfolio
\* value, check_circuit_breaker
CheckCircuitBreakerCall(current_prices) ==
    /\ ret' = [fn |-> "check_circuit_breaker", err |-> NoError]
                  @@ check_circuit_breaker(
                         risk_manager,
                         calculate_total_portfolio_value(portfolio, current_prices))
    /\ risk_manager' = ret'.rm
    /\ memo' = BreakerHistory(calculate_total_portfolio_value(portfolio,
                                                              current_prices))
    /\ UNCHANGED <<CRYPTOCURRENCIES, hashSalt, rng, bot, workers, portfolio, now, clock>>

\* midnight passes
ClockTick ==
    /\ now < MaxTradingDays
    /\ now' = now + 1
    /\ ret' = [fn |-> "time.sleep", err |-> NoError]
    /\ UNCHANGED <<CRYPTOCURRENCIES, hashSalt, rng, memo, bot, workers, risk_manager,
                   portfolio, clock>>

(***************************************************************************)
(* The price cache of market_data.py.  price_cache maps the symbols it     *)
(* holds to [price, fetched_at]; fetched_at, the time.time() at which the  *)
(* price came from the exchange, is history the source does not keep.      *)
(* What the exchange answers is an input: lastPrice 0 stands for a ticker  *)
(* without a price and for a request that raised.                          *)
(***************************************************************************)
CACHE_TTL == 60

EmptyCache == [symbol \in {} |-> 0]

\* MarketDataFetcher.__init__(use_live_data)
NewMarketDataFetcher(use_live_data) ==
    [use_live_data |-> use_live_data, price_cache |-> EmptyCache,
     cache_timestamp |-> 0, cache_ttl |-> CACHE_TTL]

\* lines 105-107 of get_current_price: the symbol is cached and the cache is
\* younger than cache_ttl
CacheHit(md, t, symbol) ==
    /\ symbol \in DOMAIN md.price_cache
    /\ t - md.cache_timestamp < md.cache_ttl

\* get_live_price(symbol) when the ticker of the exchange says lastPrice:
\* the price, 0 for None
get_live_price(md, symbol, lastPrice) ==
    IF ~md.use_live_data THEN 0
    ELSE IF lastPrice > 0 THEN lastPrice ELSE 0

\* self.price_cache[symbol] = live_price; self.cache_timestamp = time.time()
Cached(md, t, symbol, live_price) ==
    [md EXCEPT !.price_cache =
                   [k \in DOMAIN @ \cup {symbol} |->
                       IF k = symbol THEN [price |-> live_price, fetched_at |-> t]
                       ELSE @[k]],
               !.cache_timestamp = t]

\* lines 117-124 of get_current_price: the fallback price with its variation
Fallback(md, t, g, fallback_price) ==
    IF fallback_price > 0
    THEN [md |-> md, cached |-> FALSE, fetched_at |-> t,
          price |-> FloorDiv(fallback_price
                               * (1000 + uniform(g, -JitterPerMille, JitterPerMille).x),
                             1000),
          g |-> uniform(g, -JitterPerMille, JitterPerMille).g]
    ELSE [md |-> md, cached |-> FALSE, fetched_at |-> t, price |-> fallback_price,
          g |-> g]

\* MarketDataFetcher.get_current_price(symbol, fallback_price) at the time t:
\* [md, price, cached, fetched_at, g]
get_current_price(md, t, g, symbol, fallback_price, lastPrice) ==
    IF md.use_live_data /\ CacheHit(md, t, symbol)
    THEN [md |-> md, cached |-> TRUE,
          fetched_at |-> md.price_cache[symbol].fetched_at,
          price |-> md.price_cache[symbol].price, g |-> g]
    ELSE IF md.use_live_data /\ get_live_price(md, symbol, lastPrice) > 0
    THEN [md |-> Cached(md, t, symbol, get_live_price(md, symbol, lastPrice)),
          cached |-> FALSE, fetched_at |-> t,
          price |-> get_live_price(md, symbol, lastPrice), g |-> g]
    ELSE Fallback(md, t, g, fallback_price)

\* lines 73-83 of get_all_tickers: the tickers with a price replace the cache
Refreshed(md, t, tickers) ==
    [md EXCEPT !.price_cache =
                   [k \in {x \in DOMAIN tickers : tickers[x] > 0} |->
                       [price |-> tickers[k], fetched_at |-> t]],
               !.cache_timestamp = t]

\* MarketDataFetcher.get_all_tickers() at the time t; tickers is the answer
\* of the exchange, raised says that the request failed: [md, prices, cached]
get_all_tickers(md, t, tickers, raised) ==
    IF ~md.use_live_data
    THEN [md |-> md, prices |-> EmptyCache, cached |-> FALSE]
    ELSE IF md.price_cache # EmptyCache /\ t - md.cache_timestamp < md.cache_ttl
    THEN [md |-> md, prices |-> md.price_cache, cached |-> TRUE]
    ELSE IF raised
    THEN [md |-> md, prices |-> EmptyCache, cached |-> FALSE]
    ELSE [md |-> Refreshed(md, t, tickers),
          prices |-> Refreshed(md, t, tickers).price_cache, cached |-> FALSE]

\* the bot with its self.market_data
NewBotWithMarketData(use_live_data) ==
    [market_data |-> NewMarketDataFetcher(use_live_data)] @@ NewTradingBot(TRUE)

\* what a ticker of the exchange says, 0 for no price
LastPrices == {0} \cup PriceLevels

\* seconds between two calls
Elapsed == {30, 60}

GetCurrentPriceCall(symbol, fallback_price, lastPrice) ==
    /\ ret' = [fn |-> "get_current_price", err |-> NoError, symbol |-> symbol]
                  @@ get_current_price(bot.market_data, clock, Gen(rng), symbol,
                                       fallback_price, lastPrice)
    /\ bot' = [bot EXCEPT !.market_data = ret'.md]
    /\ rng' = ret'.g.state
    /\ UNCHANGED <<CRYPTOCURRENCIES, hashSalt, memo, workers, risk_manager, portfolio,
                   now, clock>>

GetAllTickersCall(tickers, raised) ==
    /\ ret' = [fn |-> "get_all_tickers", err |-> NoError]
                  @@ get_all_tickers(bot.market_data, clock, tickers, raised)
    /\ bot' = [bot EXCEPT !.market_data = ret'.md]
    /\ UNCHANGED <<CRYPTOCURRENCIES, hashSalt, rng, memo, workers, risk_manager,
                   portfolio, now, clock>>

\* time passes between two calls
TimePasses(seconds) ==
    /\ clock + seconds <= MaxSeconds
    /\ clock' = clock + seconds
    /\ ret' = [fn |-> "time.sleep", err |-> NoError]
    /\ UNCHANGED <<CRYPTOCURRENCIES, hashSalt, rng, memo, bot, workers, risk_manager,
                   portfolio, now>>

(***************************************************************************)
(* Specifications.  Spec: the statistics and scoring calls on two          *)
(* catalogs.  SpecPath: the path simulator and the momentum runs on every  *)
(* catalog.  SpecRank: the orchestrators.  SpecDet: repeated statistics    *)
(* calls.  SpecBot: the bot's loop.  SpecNormal: the Box-Muller draw on    *)
(* every generator state.  SpecPar: two statistics calls on two threads.   *)
(* SpecStats: the statistics of every list of final returns.  SpecRisk:    *)
(* the trade path of the bot.  SpecRun: run(iterations).  SpecCache: the   *)
(* price cache.  SpecLoss: the trade path in a falling market.             *)
(* SpecRebalance: the rebalances of one day.  SpecCash: the rebalances of  *)
(* the paper bot over MaxCashDays days.                                    *)
(***************************************************************************)
EngineCatalogs ==
    {<<Entry(Names[1], Volatile), Entry(Names[2], Steady)>>,
     <<Entry(Names[1], Crash), Entry(Names[2], ZeroPrice), Entry(Names[3], Volatile)>>}

InitWith(catalogs) ==
    /\ CRYPTOCURRENCIES \in catalogs
    /\ hashSalt \in 0 .. MaxSalt
    /\ rng = 0
    /\ ret = NoCall
    /\ memo = NoCall
    /\ bot = NewBot
    /\ workers = NoWorkers
    /\ risk_manager = NewRiskManager(PaperCapital)
    /\ portfolio = NewPortfolio(PaperCapital)
    /\ now = 0
    /\ clock = 0

Init == InitWith(EngineCatalogs)

Next ==
    \/ \E crypto \in NameSet, params \in Profiles, simulations \in -1 .. MaxSims :
           SimulateCall(crypto, params, simulations)
    \/ \E crypto \in NameSet, simulations \in -1 .. MaxSims :
           PredictorSimulateCall(crypto, simulations)
    \/ ProfitScoreCall
    \/ \E momentum \in MomentumValues : CompositeScoreCall(momentum)

Spec == Init /\ [][Next]_vars

InitPath == InitWith(Catalogs)

NextPath ==
    \/ \E crypto \in NameSet, days \in 0 .. MaxDays :
           GeneratePriceDataCall(crypto, days)
    \/ \E crypto \in NameSet : MomentumCall(crypto)

SpecPath == InitPath /\ [][NextPath]_vars

\* SpecRank: the orchestrators on the catalogs whose assets before the last
\* one have a positive price
RankCatalogs ==
    {c \in Catalogs : \A i \in 1 .. Len(c) - 1 : c[i].price > 0}

InitRank == InitWith(RankCatalogs)

NextRank ==
    \/ \E top_n \in -1 .. MaxTopN : GetTopRecommendationsCall(top_n)
    \/ PredictorMainCall

SpecRank == InitRank /\ [][NextRank]_vars

\* SpecDet: repeated statistics calls with other users of the generator
\* between them
DetCatalogs == {<<Entry(Names[1], Volatile), Entry(Names[2], Steady)>>}
DetProfiles == {Volatile, Steady}
DetNames == {Names[1], Names[2]}

InitDet == InitWith(DetCatalogs)

NextDet ==
    \/ \E crypto \in DetNames, params \in DetProfiles, simulations \in 1 .. MaxSims :
           \/ RecordedSimulateCall(crypto, params, simulations)
           \/ RepeatedSimulateCall(crypto, params, simulations)
    \/ \E crypto \in DetNames, simulations \in 1 .. MaxSims :
           \/ RecordedPredictorSimulateCall(crypto, simulations)
           \/ RepeatedPredictorSimulateCall(crypto, simulations)
    \/ \E crypto \in DetNames : MomentumCall(crypto)
    \/ OtherDraw

SpecDet == InitDet /\ [][NextDet]_vars

\* SpecBot: the bot's loop on the catalogs of at most two assets
BotCatalogs == {c \in Catalogs : Len(c) <= 2}

InitBot == InitWith(BotCatalogs)

NextBot ==
    \/ BotRunStart
    \/ \E elapsed \in BOOLEAN, lookups \in 0 .. MaxJitter : BotRunOnce(elapsed, lookups)
    \/ BotInterrupt

SpecBot == InitBot /\ [][NextBot]_vars

\* SpecPar: the statistics calls of two assets in two threads
ParProfiles == {Volatile, Steady}

InitPar ==
    /\ CRYPTOCURRENCIES \in DetCatalogs
    /\ hashSalt \in 0 .. MaxSalt
    /\ rng = 0
    /\ ret = NoCall
    /\ memo = NoCall
    /\ bot = NewBot
    /\ workers \in {[threads |-> <<StartWorker(Names[1], p1, 1),
                                   StartWorker(Names[2], p2, 1)>>,
                      running |-> 0, switches |-> 0] : p1, p2 \in ParProfiles}
    /\ risk_manager = NewRiskManager(PaperCapital)
    /\ portfolio = NewPortfolio(PaperCapital)
    /\ now = 0
    /\ clock = 0

NextPar == \E i \in 1 .. 2 : WorkerSeed(i) \/ WorkerDraw(i)

SpecPar == InitPar /\ [][NextPar]_vars

\* SpecStats: the statistics of every list of 1..MaxReturns terminal returns
\* of -30%, 0%, 45%
ReturnValues == {-300, 0, 450}

ReturnLists == UNION {[1 .. n -> ReturnValues] : n \in 1 .. MaxReturns}

InitStats ==
    /\ CRYPTOCURRENCIES \in DetCatalogs
    /\ hashSalt = 0
    /\ rng = 0
    /\ ret = NoCall
    /\ memo = NoCall
    /\ bot = NewBot
    /\ workers \in {[threads |-> <<AfterTrials(final_returns)>>, running |-> 1,
                      switches |-> 0] : final_returns \in ReturnLists}
    /\ risk_manager = NewRiskManager(PaperCapital)
    /\ portfolio = NewPortfolio(PaperCapital)
    /\ now = 0
    /\ clock = 0

NextStats == AggregateCall \/ PredictorAggregateCall

SpecStats == InitStats /\ [][NextStats]_vars

\* SpecRisk: the trade path of the bot, started in live mode on an exchange
\* balance of LiveCapital.  (On the PaperCapital of paper mode no more than
\* MAX_POSITIONS * MAX_POSITION_SIZE is ever invested, a tenth of the capital,
\* and a 25% drawdown is out of reach of the price levels.)
InitRisk ==
    /\ CRYPTOCURRENCIES \in DetCatalogs
    /\ hashSalt = 0
    /\ rng = 0
    /\ ret = NoCall
    /\ memo = NoCall
    /\ bot = NewTradingBot(FALSE)
    /\ workers = NoWorkers
    /\ risk_manager = NewRiskManager(get_initial_capital(bot.paper_mode))
    /\ portfolio = NewPortfolio(get_initial_capital(bot.paper_mode))
    /\ now = 0
    /\ clock = 0

NextRisk ==
    \/ \E symbol \in Symbols, usd_amount \in BuyAmounts, price \in PriceLevels :
           ExecuteBuyCall(symbol, usd_amount, price)
    \/ \E seen \in [Symbols -> PriceLevels], fill \in [Symbols -> PriceLevels] :
           CheckStopLossesCall(seen, fill)
    \/ \E current_prices \in [Symbols -> PriceLevels] :
           CheckCircuitBreakerCall(current_prices)
    \/ ClockTick

SpecRisk == InitRisk /\ [][NextRisk]_vars

\* SpecRun: run(iterations) for every count 0 .. MaxIterations
InitRun ==
    /\ CRYPTOCURRENCIES \in BotCatalogs
    /\ hashSalt \in 0 .. MaxSalt
    /\ rng = 0
    /\ ret = NoCall
    /\ memo = NoCall
    /\ bot \in {NewBotFor(iterations) : iterations \in 0 .. MaxIterations}
    /\ workers = NoWorkers
    /\ risk_manager = NewRiskManager(PaperCapital)
    /\ portfolio = NewPortfolio(PaperCapital)
    /\ now = 0
    /\ clock = 0

NextRun ==
    \/ BotRunStart
    \/ \E elapsed \in BOOLEAN, lookups \in 0 .. MaxJitter : RunPass(elapsed, lookups)
    \/ BotInterrupt

SpecRun == InitRun /\ [][NextRun]_vars

\* SpecCache: calls of get_current_price and get_all_tickers as time passes
InitCache ==
    /\ CRYPTOCURRENCIES \in DetCatalogs
    /\ hashSalt = 0
    /\ rng = 0
    /\ ret = NoCall
    /\ memo = NoCall
    /\ bot \in {NewBotWithMarketData(use_live_data) : use_live_data \in BOOLEAN}
    /\ workers = NoWorkers
    /\ risk_manager = NewRiskManager(PaperCapital)
    /\ portfolio = NewPortfolio(PaperCapital)
    /\ now = 0
    /\ clock = 0

NextCache ==
    \/ \E symbol \in Symbols, fallback_price \in LastPrices, lastPrice \in LastPrices :
           GetCurrentPriceCall(symbol, fallback_price, lastPrice)
    \/ \E tickers \in [Symbols -> LastPrices], raised \in BOOLEAN :
           GetAllTickersCall(tickers, raised)
    \/ \E seconds \in Elapsed : TimePasses(seconds)

SpecCache == InitCache /\ [][NextCache]_vars

\* SpecRebalance: the rebalances and the checks of run_once during one day,
\* in live mode on an exchange balance of LiveCapital
InitRebalance == InitRisk

NextRebalance ==
    \/ \E recommendations \in RecommendationLists, current_prices \in MarketLevels :
           RebalanceCall(recommendations, current_prices)
    \/ \E seen \in MarketLevels : CheckStopLossesCall(seen, seen)
    \/ \E current_prices \in MarketLevels : CheckCircuitBreakerCall(current_prices)

SpecRebalance == InitRebalance /\ [][NextRebalance]_vars

\* SpecLoss: the trade path of the bot in paper mode while the market falls
\* from 100 to 10; the bot trades one pair
LossPriceLevels == {10000, 1000}

InitLoss ==
    /\ CRYPTOCURRENCIES \in DetCatalogs
    /\ hashSalt = 0
    /\ rng = 0
    /\ ret = NoCall
    /\ memo = NoCall
    /\ bot = NewTradingBot(TRUE)
    /\ workers = NoWorkers
    /\ risk_manager = NewRiskManager(get_initial_capital(bot.paper_mode))
    /\ portfolio = NewPortfolio(get_initial_capital(bot.paper_mode))
    /\ now = 0
    /\ clock = 0

NextLoss ==
    \/ \E usd_amount \in BuyAmounts, price \in LossPriceLevels :
           ExecuteBuyCall("btcinr", usd_amount, price)
    \/ \E seen \in [Symbols -> LossPriceLevels], fill \in [Symbols -> LossPriceLevels] :
           CheckStopLossesCall(seen, fill)
    \/ \E current_prices \in [Symbols -> LossPriceLevels] :
           CheckCircuitBreakerCall(current_prices)
    \/ ClockTick

SpecLoss == InitLoss /\ [][NextLoss]_vars

\* SpecCash: the rebalances of the paper bot at a constant price, day after
\* day, when the analysis recommends one pair
CashPrices == [symbol \in Symbols |-> 10000]

NextCash ==
    \/ RebalanceCall(<<Recommendation("btcinr", 100)>>, CashPrices)
    \/ DayPasses(MaxCashDays)

InitCash == InitLoss

SpecCash == InitCash /\ [][NextCash]_vars

\* SpecNormal: normal_random() from every state of the generator
InitNormal ==
    /\ CRYPTOCURRENCIES \in DetCatalogs
    /\ hashSalt \in 0 .. MaxSalt
    /\ rng \in RngStates
    /\ ret = NoCall
    /\ memo = NoCall
    /\ bot = NewBot
    /\ workers = NoWorkers
    /\ risk_manager = NewRiskManager(PaperCapital)
    /\ portfolio = NewPortfolio(PaperCapital)
    /\ now = 0
    /\ clock = 0

NextNormal == NormalRandomCall

SpecNormal == InitNormal /\ [][NextNormal]_vars

(***************************************************************************)
(* Properties.                                                             *)
(***************************************************************************)
IsStatisticsCall(r) ==
    r.fn \in {"simulate_30_day_returns", "predictor.simulate_30_day_returns"}

\* the parameters a statistics call ran with: its argument (profit maximizer)
\* or the catalog's entry (predictor); the empty sequence when there is none
ParamsUsed(r) ==
    IF r.fn = "simulate_30_day_returns" THEN r.params
    ELSE IF Position(CRYPTOCURRENCIES, r.crypto) = 0 THEN <<>>
    ELSE ParamsOf(CRYPTOCURRENCIES[Position(CRYPTOCURRENCIES, r.crypto)])

ScoresOf(rs) == [i \in 1 .. Len(rs) |-> rs[i].score]

CryptosOf(rs) == {rs[i].crypto : i \in 1 .. Len(rs)}

\* 100 points in the unit of a score
HundredPoints == 100 * ScoreScale * WeightScale

\* C1: every value calculate_profit_score or calculate_composite_score
\* returns lies in [0, 100].
C1_ScoreWithinBounds ==
    ret.fn \in {"calculate_profit_score", "calculate_composite_score"} =>
        (0 <= ret.score /\ ret.score <= HundredPoints)

\* C2: when get_top_recommendations returns a list with a nonzero score, each
\* allocation_pct is score / (sum of the returned scores) * 100 and the
\* allocations sum to 100 (as exact fractions over one denominator).
C2_AllocationSumsTo100 ==
    (/\ ret.fn = "get_top_recommendations"
     /\ ret.err = NoError
     /\ \E i \in 1 .. Len(ret.top_results) : ret.top_results[i].score # 0) =>
        LET top == ret.top_results
            total == SumSeq(ScoresOf(top))
        IN  /\ \A i \in 1 .. Len(top) :
                  /\ top[i].allocation_pct.den = total
                  /\ top[i].allocation_pct.num = top[i].score * 100
            /\ SumSeq([i \in 1 .. Len(top) |-> top[i].allocation_pct.num])
                   = 100 * total

C2_Witness ==
    /\ ret.fn = "get_top_recommendations"
    /\ ret.err = NoError
    /\ Len(ret.top_results) >= 2
    /\ Len(ret.top_results) < Len(ret.results)
    /\ \A i \in 1 .. Len(ret.results) : ret.results[i].score > 0

\* C3: when the K >= 1 best scores are all zero, get_top_recommendations
\* does not fail and gives each returned entry the allocation 100 / K.
C3_EqualFallback ==
    (/\ ret.fn = "get_top_recommendations"
     /\ ret.failed = ""
     /\ Len(Slice(ret.results, ret.top_n)) >= 1
     /\ \A i \in 1 .. Len(Slice(ret.results, ret.top_n)) : ret.results[i].score = 0) =>
        LET K == Len(Slice(ret.results, ret.top_n))
        IN  /\ ret.err = NoError
            /\ Len(ret.top_results) = K
            /\ \A i \in 1 .. Len(ret.top_results) :
                  ret.top_results[i].allocation_pct.num * K
                      = 100 * ret.top_results[i].allocation_pct.den

\* C4: for K >= 0 and a catalog of N assets with positive prices,
\* get_top_recommendations(top_n=K) returns min(K, N) entries in
\* non-increasing order of score, none scoring less than an asset left out.
C4_TopKRanked ==
    (/\ ret.fn = "get_top_recommendations"
     /\ ret.top_n >= 0
     /\ \A i \in 1 .. Len(CRYPTOCURRENCIES) : CRYPTOCURRENCIES[i].price > 0) =>
        /\ ret.err = NoError
        /\ Len(ret.top_results) = Min2(ret.top_n, Len(CRYPTOCURRENCIES))
        /\ \A i, j \in 1 .. Len(ret.top_results) :
               i < j => ret.top_results[i].score >= ret.top_results[j].score
        /\ \A i \in 1 .. Len(ret.top_results), j \in 1 .. Len(ret.results) :
               ret.results[j].crypto \notin CryptosOf(ret.top_results)
                   => ret.top_results[i].score >= ret.results[j].score

\* C5: in the ranked list of get_top_recommendations and of the predictor's
\* main(), of two assets with the same score the one earlier in the catalog
\* comes first.
C5_StableRanking ==
    ret.fn \in {"get_top_recommendations", "predictor.main"} =>
        \A i, j \in 1 .. Len(ret.results) :
            (i < j /\ ret.results[i].score = ret.results[j].score) =>
                Position(CRYPTOCURRENCIES, ret.results[i].crypto)
                    < Position(CRYPTOCURRENCIES, ret.results[j].crypto)

C5_Witness ==
    /\ ret.fn \in {"get_top_recommendations", "predictor.main"}
    /\ \E i, j \in 1 .. Len(ret.results) :
           /\ i < j
           /\ ret.results[i].score = ret.results[j].score
           /\ ret.results[i].score > 0
    /\ \E i, j \in 1 .. Len(ret.results) : ret.results[i].score # ret.results[j].score

\* C6: a statistics call with the asset name, parameters and simulation count
\* of an earlier statistics call of the same process returns the statistics
\* that call returned, whatever used the generator in between.
C6_Deterministic ==
    (/\ IsStatisticsCall(memo)
     /\ ret.fn = memo.fn
     /\ ret.crypto = memo.crypto
     /\ ret.simulations = memo.simulations
     /\ ParamsUsed(ret) = ParamsUsed(memo)) =>
        /\ ret.err = memo.err
        /\ ret.stats = memo.stats

C6_Witness ==
    /\ IsStatisticsCall(memo)
    /\ ret.fn = memo.fn
    /\ ret.crypto = memo.crypto
    /\ ret.simulations = memo.simulations
    /\ ParamsUsed(ret) = ParamsUsed(memo)
    /\ ret.err = NoError
    /\ ret.simulations >= 2
    /\ ret.stats.volatility > 0
    /\ "after" \in DOMAIN ret
    /\ ret.after = "get_current_price"

\* the price after `steps` steps at rate `rate` with no shock
RECURSIVE Compound(_, _, _)
Compound(price, rate, steps) ==
    IF steps <= 0 THEN price
    ELSE FloorDiv(Compound(price, rate, steps - 1) * (RateScale + rate), RateScale)

\* a successful statistics call on price 100, volatility 0, drift 0.01
DriftOnlyScenario ==
    /\ IsStatisticsCall(ret)
    /\ ret.err = NoError
    /\ ParamsUsed(ret) = Asset(10000, 0, 10)

C8_PathContract ==
    (/\ ret.fn = "generate_price_data"
     /\ ret.days >= 1
     /\ Position(CRYPTOCURRENCIES, ret.crypto) # 0) =>
        LET a == CRYPTOCURRENCIES[Position(CRYPTOCURRENCIES, ret.crypto)]
        IN  /\ ret.err = NoError
            /\ Len(ret.data) = ret.days
            /\ ret.data[1] = a.price
            /\ Len(ret.shocks) = ret.days - 1
            /\ ret.g.draws = 2 * (ret.days - 1)
            /\ \A i \in 2 .. Len(ret.data) :
                   ret.data[i] =
                       FloorDiv(ret.data[i - 1]
                                  * (RateScale + a.drift
                                       + FloorDiv(a.volatility * ret.shocks[i - 1], ZScale)),
                                RateScale)

C8_Witness ==
    /\ ret.fn = "generate_price_data"
    /\ ret.err = NoError
    /\ ret.days >= 3
    /\ Len(ret.data) = ret.days
    /\ ret.data[2] # ret.data[1]
    /\ ret.data[3] # ret.data[2]
    /\ \E i \in 1 .. Len(ret.shocks) : ret.shocks[i] # 0

\* C9: a statistics call with a price <= 0 or a simulation count <= 0 raises
\* an invalid-parameter error before any draw and before any price step.
C9_FailFast ==
    (/\ IsStatisticsCall(ret)
     /\ ParamsUsed(ret) # <<>>
     /\ (ParamsUsed(ret).price <= 0 \/ ret.simulations <= 0)) =>
        /\ ret.err # NoError
        /\ ret.g.draws = 0
        /\ Len(ret.final_prices) = 0

\* C10: when the analysis of one asset raises during a pass of the bot, the
\* pass raises nothing, the ranking holds every asset with a positive price,
\* and the bot keeps running with its database open.
C10_ErrorNotFatal ==
    (ret.fn = "TradingBot.run_once" /\ ret.failed # "") =>
        /\ ret.err = NoError
        /\ \A i \in 1 .. Len(CRYPTOCURRENCIES) :
               CRYPTOCURRENCIES[i].price > 0
                   => CRYPTOCURRENCIES[i].crypto \in CryptosOf(ret.results)
        /\ bot.running
        /\ bot.db_open

\* C11: the first uniform draw of normal_random is never 0, and
\* normal_random raises no domain error, whatever the generator returns.
C11_NoDomainError ==
    ret.fn = "normal_random" => (ret.u1 > 0 /\ ret.err = NoError)

\* the outcome of the call of thread frame w when it runs alone
Alone(w) == simulate_30_day_returns(Gen(0), w.crypto, w.params, w.simulations)

\* C12: whatever the interleaving of the seeding and the draws of two
\* statistics calls run in parallel, each call returns the statistics it
\* returns when it runs alone.
C12_ParallelIndependent ==
    \A i \in 1 .. Len(workers.threads) :
        workers.threads[i].pc = "done" =>
            /\ workers.threads[i].err = Alone(workers.threads[i]).err
            /\ workers.threads[i].stats = Alone(workers.threads[i]).stats

\* v is the element at 0-based index k of the ascending order of s
AtRank(s, v, k) ==
    /\ \E i \in 1 .. Len(s) : s[i] = v
    /\ Cardinality({i \in 1 .. Len(s) : s[i] < v}) <= k
    /\ Cardinality({i \in 1 .. Len(s) : s[i] <= v}) > k

\* floor(M * q) for q in hundredths
RankIndex(M, q) == (M * q) \div 100

\* C13: for M >= 1 returns, each reported percentile q is the element at index
\* floor(M * q) of the returns in ascending order, an element of the sample,
\* and that index is below M.
C13_PercentileIndex ==
    (ret.fn \in {"statistics", "predictor.statistics"}) =>
        LET M == Len(ret.final_returns)
            fr == ret.final_returns
        IN  /\ ret.err = NoError
            /\ \A q \in {10, 25, 50, 75, 90} : RankIndex(M, q) < M
            /\ AtRank(fr, ret.stats.median_return, RankIndex(M, 50))
            /\ ret.fn = "statistics" =>
                   /\ AtRank(fr, ret.stats.p10, RankIndex(M, 10))
                   /\ AtRank(fr, ret.stats.p25, RankIndex(M, 25))
                   /\ AtRank(fr, ret.stats.p75, RankIndex(M, 75))
                   /\ AtRank(fr, ret.stats.p90, RankIndex(M, 90))
            /\ ret.fn = "predictor.statistics" =>
                   /\ AtRank(fr, ret.stats.worst_case, RankIndex(M, 10))
                   /\ AtRank(fr, ret.stats.best_case, RankIndex(M, 90))

C13_Witness ==
    /\ ret.fn = "statistics"
    /\ ret.err = NoError
    /\ Len(ret.final_returns) = 10
    /\ ret.final_returns[1] > ret.final_returns[2]
    /\ ret.stats.p10 < ret.stats.p25
    /\ ret.stats.p75 < ret.stats.p90

\* C14: in every bundle of the profit maximizer's statistics,
\* max_loss <= p10 <= p25 <= p50 <= p75 <= p90.
C14_PercentilesOrdered ==
    (ret.fn = "statistics" /\ ret.err = NoError) =>
        /\ ret.stats.max_loss <= ret.stats.p10
        /\ ret.stats.p10 <= ret.stats.p25
        /\ ret.stats.p25 <= ret.stats.median_return
        /\ ret.stats.median_return <= ret.stats.p75
        /\ ret.stats.p75 <= ret.stats.p90

C14_Witness ==
    /\ ret.fn = "statistics"
    /\ ret.err = NoError
    /\ ret.final_returns[1] > ret.final_returns[Len(ret.final_returns)]
    /\ ret.stats.max_loss < ret.stats.p10
    /\ ret.stats.p25 < ret.stats.p75
    /\ ret.stats.p10 < ret.stats.median_return \/ ret.stats.median_return < ret.stats.p90

\* the number of returns strictly below 0
LossCount(s) == Cardinality({i \in 1 .. Len(s) : s[i] < 0})

\* C15: for M >= 1 returns, prob_loss is 100 * (number of returns strictly
\* below 0) / M and lies in [0, 100].
C15_ProbabilityOfLoss ==
    (ret.fn \in {"statistics", "predictor.statistics"}) =>
        /\ ret.err = NoError
        /\ ret.stats.prob_loss =
               (LossCount(ret.final_returns) * 100 * PctScale)
                   \div Len(ret.final_returns)
        /\ 0 <= ret.stats.prob_loss
        /\ ret.stats.prob_loss <= 100 * PctScale

C15_Witness ==
    /\ ret.fn \in {"statistics", "predictor.statistics"}
    /\ ret.err = NoError
    /\ \E i \in 1 .. Len(ret.final_returns) : ret.final_returns[i] = 0
    /\ \E i \in 1 .. Len(ret.final_returns) : ret.final_returns[i] > 0
    /\ LossCount(ret.final_returns) >= 2
    /\ ret.stats.prob_loss > 0
    /\ ret.stats.prob_loss < 100 * PctScale

\* the downside deviation: the root of the mean square of the negative returns
DownsideDeviation(s) ==
    Sqrt(FloorDiv(SumSeq([i \in 1 .. Len(s) |-> IF s[i] < 0 THEN s[i] * s[i] ELSE 0]),
                  LossCount(s)))

\* C16: for M >= 1 returns the statistics raise nothing; with no negative
\* return sortino_ratio is +infinity when the mean return is > 0 and 0
\* otherwise; with a negative return it is the mean return over the downside
\* deviation of the negative returns (0 when that deviation is 0).
C16_SortinoEdgeCase ==
    (ret.fn = "statistics") =>
        /\ ret.err = NoError
        /\ IF LossCount(ret.final_returns) = 0
           THEN IF ret.stats.avg_return > 0
                THEN ret.stats.sortino_ratio.inf = TRUE
                ELSE /\ ret.stats.sortino_ratio.inf = FALSE
                     /\ ret.stats.sortino_ratio.val = 0
           ELSE /\ ret.stats.sortino_ratio.inf = FALSE
                /\ ret.stats.sortino_ratio.val =
                       IF DownsideDeviation(ret.final_returns) > 0
                       THEN FloorDiv(ret.stats.avg_return * RatioScale,
                                     DownsideDeviation(ret.final_returns))
                       ELSE 0

C16_Witness ==
    /\ ret.fn = "statistics"
    /\ ret.err = NoError
    /\ Len(ret.final_returns) >= 2
    /\ LossCount(ret.final_returns) = 0
    /\ \E i \in 1 .. Len(ret.final_returns) : ret.final_returns[i] = 0
    /\ ret.stats.avg_return > 0
    /\ ret.stats.sortino_ratio.inf = TRUE

\* the outcome of calculate_momentum_score(crypto) in a process that has
\* made no other call
FreshMomentum(crypto) ==
    calculate_momentum_score(Gen(0), CRYPTOCURRENCIES, crypto)

\* C17: calculate_momentum_score(asset) is 0.7 * (7-step return) + 0.3 *
\* (30-step return), both runs starting from the asset's initial price (with
\* volatility 0 they end at price * (1 + drift)^7 and price * (1 + drift)^30),
\* and it is the value a process gets that never called
\* simulate_30_day_returns, whatever calls came before.
C17_MomentumIndependent ==
    (/\ ret.fn = "calculate_momentum_score"
     /\ Position(CRYPTOCURRENCIES, ret.crypto) # 0) =>
        LET a == CRYPTOCURRENCIES[Position(CRYPTOCURRENCIES, ret.crypto)]
        IN  /\ ret.err = NoError
            /\ ret.momentum * 10 <=
                   7 * (((ret.price_7d - a.price) * 100 * PctScale) \div a.price)
                     + 3 * (((ret.price_30d - a.price) * 100 * PctScale) \div a.price)
            /\ ret.momentum * 10 + 10 >
                   7 * (((ret.price_7d - a.price) * 100 * PctScale) \div a.price)
                     + 3 * (((ret.price_30d - a.price) * 100 * PctScale) \div a.price)
            /\ a.volatility = 0 =>
                   /\ ret.price_7d = Compound(a.price, a.drift, 7)
                   /\ ret.price_30d = Compound(a.price, a.drift, 30)
            /\ ret.momentum = FreshMomentum(ret.crypto).momentum
            /\ ret.price_7d = FreshMomentum(ret.crypto).price_7d
            /\ ret.price_30d = FreshMomentum(ret.crypto).price_30d

C17_Witness ==
    /\ ret.fn = "calculate_momentum_score"
    /\ ret.err = NoError
    /\ ret.after \in {"simulate_30_day_returns", "predictor.simulate_30_day_returns"}
    /\ IsStatisticsCall(memo)
    /\ CRYPTOCURRENCIES[Position(CRYPTOCURRENCIES, ret.crypto)].volatility > 0
    /\ ret.price_7d # ret.price_30d
    /\ ret.momentum # 0

BreakerReason == "Circuit breaker active"

\* C18: once check_circuit_breaker was called with a portfolio value at or
\* below initial_portfolio_value * (1 - CIRCUIT_BREAKER_THRESHOLD / 100), the
\* breaker is active in every later state and every later trade, a buy or a
\* stop-loss sell, is rejected by the breaker, also after the value recovered.
C18_BreakerLatches ==
    (memo.fn = "check_circuit_breaker") =>
        /\ risk_manager.circuit_breaker_active
        /\ ret.fn = "_execute_buy" =>
               (~ret.ok /\ ret.reason = BreakerReason)
        /\ ret.fn = "check_stop_losses" =>
               /\ ret.sold = {}
               /\ Len(ret.rejected) = Cardinality(ret.triggered)
               /\ \A i \in 1 .. Len(ret.rejected) : ret.rejected[i] = BreakerReason

C18_Witness ==
    /\ memo.fn = "check_circuit_breaker"
    /\ memo.recovered
    /\ ret.fn = "check_stop_losses"
    /\ ret.triggered # {}
    /\ ret.sold = {}
    /\ risk_manager.daily_volume < MAX_DAILY_VOLUME
    /\ Abs(risk_manager.daily_loss) < MAX_DAILY_LOSS
    /\ now > 0

\* C19: when check_stop_losses returns, no position it found at or below
\* avg_price * (1 - STOP_LOSS_PERCENTAGE / 100) is left in the portfolio
\* tracker's or the risk manager's positions.
C19_StopLossSells ==
    (ret.fn = "check_stop_losses") =>
        \A i \in 1 .. Len(ret.before) :
            ret.seen[ret.before[i].symbol] * 100
                    <= ret.before[i].avg_price * (100 - STOP_LOSS_PERCENTAGE)
                => /\ ~Held(portfolio.positions, ret.before[i].symbol)
                   /\ ~Held(risk_manager.positions, ret.before[i].symbol)

\* C20: daily_volume never exceeds MAX_DAILY_VOLUME, buys and sells counted
\* together.
C20_DailyVolumeLimit ==
    risk_manager.daily_volume <= MAX_DAILY_VOLUME

C20_Witness ==
    /\ ret.fn = "_execute_buy"
    /\ ~ret.ok
    /\ ret.reason = "Trade would exceed daily volume limit"
    /\ risk_manager.daily_loss < 0
    /\ risk_manager.daily_volume > MAX_DAILY_VOLUME - MAX_POSITION_SIZE
    /\ risk_manager.daily_volume <= MAX_DAILY_VOLUME

LossReason == "Daily loss limit reached"

\* C21: daily_loss is never positive.  While abs(daily_loss) >= MAX_DAILY_LOSS
\* and no new day has begun, no trade is approved: a buy is rejected, a
\* stop-loss pass sells nothing, positions, cash and daily_volume stay as they
\* are.  The first approve_trade of a new day resets daily_loss and
\* daily_volume to 0 and, unless the circuit breaker is active, is not rejected
\* for the daily loss or the daily volume.
C21_DailyLossLimit ==
    [][/\ risk_manager'.daily_loss <= 0
       /\ (/\ Abs(risk_manager.daily_loss) >= MAX_DAILY_LOSS
           /\ now < risk_manager.daily_reset_time + 1
           /\ now' = now)
              => /\ risk_manager'.positions = risk_manager.positions
                 /\ risk_manager'.daily_volume = risk_manager.daily_volume
                 /\ portfolio' = portfolio
                 /\ ret'.fn = "_execute_buy" => ~ret'.ok
                 /\ ret'.fn = "check_stop_losses" => ret'.sold = {}
       /\ (/\ now >= risk_manager.daily_reset_time + 1
           /\ ret'.fn = "_execute_buy")
              => /\ risk_manager'.daily_reset_time = now
                 /\ risk_manager'.daily_loss = 0
                 /\ risk_manager'.daily_volume
                        = IF ret'.ok THEN MAX_POSITION_SIZE ELSE 0
                 /\ ~risk_manager.circuit_breaker_active
                        => ret'.reason \notin {LossReason, "Daily volume limit reached"}
      ]_vars

C21_Witness ==
    /\ ret.fn = "_execute_buy"
    /\ ~ret.ok
    /\ ret.reason = LossReason
    /\ ~risk_manager.circuit_breaker_active
    /\ Abs(risk_manager.daily_loss) >= MAX_DAILY_LOSS
    /\ risk_manager.daily_volume < MAX_DAILY_VOLUME

\* C22: run(iterations=N) never calls run_once more than N times, has called
\* it exactly N times when the loop ends by itself, and whenever run() has
\* returned running is False and the database connection is closed.
C22_RunsExactlyN ==
    /\ bot.calls <= bot.iterations
    /\ bot.where = "returned" => (~bot.running /\ ~bot.db_open)
    /\ (bot.where = "returned" /\ ret.fn = "TradingBot.run")
           => bot.calls = bot.iterations

\* C23: a price get_current_price returns from the cache was fetched from the
\* exchange less than cache_ttl seconds before the call.
C23_CacheFresh ==
    (ret.fn = "get_current_price" /\ ret.cached)
        => clock - ret.fetched_at < bot.market_data.cache_ttl

\* the cost basis quantity * avg_price of every position is within
\* MAX_POSITION_SIZE
WithinPositionSize(positions) ==
    \A i \in 1 .. Len(positions) :
        TradeValue(positions[i].quantity, positions[i].avg_price) <= MAX_POSITION_SIZE

\* C24: the cost basis of the position held in any symbol never exceeds
\* MAX_POSITION_SIZE, in the portfolio tracker and in the risk manager.
C24_PositionSizeCap ==
    /\ WithinPositionSize(portfolio.positions)
    /\ WithinPositionSize(risk_manager.positions)

\* C25: every buy execute_portfolio_rebalance makes is for a symbol below its
\* target and for no more than the symbol's shortfall target_value -
\* current_value.
C25_BuyWithinShortfall ==
    (ret.fn = "execute_portfolio_rebalance") =>
        \A i \in 1 .. Len(ret.buys) :
            /\ ret.buys[i].shortfall > 0
            /\ ret.buys[i].ok => ret.buys[i].buy_amount <= ret.buys[i].shortfall

\* C26: in paper mode the cash balance of the portfolio is never negative.
C26_CashNotNegative ==
    portfolio.cash_balance >= 0

====
